---- MODULE Spec2Model ----
(***************************************************************************)
(* Model of the music-analysis job orchestrator (musicRouter.startAnalysis *)
(* and its detached background task), the persistence helpers of db.ts,    *)
(* the prompt-reply parsing of generatePromptsWithLLM and the decode step  *)
(* of advancedAnalyzeAudio.                                                *)
(*                                                                         *)
(* One action is one run of synchronous JavaScript between two awaits:     *)
(* the event loop runs such a piece atomically, and pieces of different    *)
(* requests interleave freely.                                             *)
(***************************************************************************)
EXTENDS Integers, Sequences, FiniteSets, Bags, TLC

\* ------------------------------------------------------------------ bounds
\* number of startAnalysis requests in one behaviour
MaxRequests == 2
\* number of pieces a file name is made of
MaxNameWords == 2
\* largest magnitude of a bin of a spectrum
MaxMagnitude == 2
\* number of blocks of samples of a decoded signal
MaxBlocks == 3

\* ------------------------------------------------------- program constants
\* z.number().max(16 * 1024 * 1024) and the explicit guard of startAnalysis
MaxFileSizeBytes == 16 * 1024 * 1024
\* z.string().max(255)
MaxFileNameLen == 255
\* new Float32Array(441000), sampleRate: 44100, channels: 2
FallbackSamples == 441000
FallbackSampleRate == 44100
FallbackChannels == 2
\* new Float32Array(sampleRate * 10)
PlaceholderSeconds == 10

\* the five keys the prompt generator is asked for
PromptKeys == {"universal", "suno", "udio", "musicgen", "beatoven"}

\* ------------------------------------------------------------ JSON values
\* A JSON value as far as the orchestrator can tell values apart: its type
\* and, for an object, its key set.
JsonObject(ks) == [type |-> "object", keys |-> ks]
JsonArray == [type |-> "array", keys |-> {}]
\* SQL NULL in the generatedPrompts column
NoPrompts == [type |-> "NULL", keys |-> {}]

\* ------------------------------------------------------- thrown JS values
\* A thrown value: an Error with a message, a string, or undefined.
JsError(msg) == [kind |-> "Error", text |-> msg]
JsString(s) == [kind |-> "string", text |-> s]
JsUndefined == [kind |-> "undefined", text |-> ""]
NoErr == [kind |-> "none", text |-> ""]

\* String(v) for the non-Error values
StringOf(v) == IF v.kind = "undefined" THEN "undefined" ELSE v.text

\* what storagePut and the LLM call (code outside the repository's core)
\* may reject with
ExternalThrows == {JsError("upstream failure"), JsError(""), JsUndefined}
\* db.ts: throw new Error("Database not available"), or a driver Error
DbThrows == {JsError("Database not available")}
\* music-metadata on a buffer it cannot parse
ParserThrows == {JsError("Failed to determine audio format")}
\* JSON.parse: SyntaxError
SyntaxError == JsError("Unexpected token in JSON")

\* err instanceof Error ? err.message : String(err)
ErrorMessage(err) == IF err.kind = "Error" THEN err.text ELSE StringOf(err)

\* ------------------------------------------------- prompt-generator reply
\* The reply text is a sequence of tokens: the fence, the word json, white
\* space, one JSON value, or prose that is no JSON.
\* three backticks
Fence == "<fence>"
WordJson == "json"
Ws == "\n"
Prose == "Here are your prompts"
TokObj5 == "{universal,suno,udio,musicgen,beatoven}"
TokObj4 == "{universal,suno,udio,musicgen}"
TokObj6 == "{universal,suno,udio,musicgen,beatoven,notes}"
TokArr == "[...]"

\* the value a JSON value token denotes
JsonOf(tok) ==
  CASE tok = TokObj5 -> JsonObject(PromptKeys)
    [] tok = TokObj4 -> JsonObject(PromptKeys \ {"beatoven"})
    [] tok = TokObj6 -> JsonObject(PromptKeys \cup {"notes"})
    [] tok = TokArr -> JsonArray
    [] OTHER -> NoPrompts

ValueTokens == {TokObj5, TokObj4, TokObj6, TokArr}

RECURSIVE TrimStart(_)
TrimStart(s) == IF s # <<>> /\ Head(s) = Ws THEN TrimStart(Tail(s)) ELSE s

RECURSIVE TrimEnd(_)
TrimEnd(s) ==
  IF s # <<>> /\ s[Len(s)] = Ws THEN TrimEnd(SubSeq(s, 1, Len(s) - 1)) ELSE s

\* String.prototype.trim
Trim(s) == TrimEnd(TrimStart(s))

\* String.prototype.startsWith
StartsWith(s, p) == Len(s) >= Len(p) /\ SubSeq(s, 1, Len(p)) = p

\* cleanedContent.replace: a fence at the very end is removed
StripTrailingFence(s) ==
  IF s # <<>> /\ s[Len(s)] = Fence THEN SubSeq(s, 1, Len(s) - 1) ELSE s

\* JSON.parse: white space, one value, white space; anything else throws
JSONParse(s) ==
  LET t == Trim(s) IN
  IF Len(t) = 1 /\ t[1] \in ValueTokens
    THEN [ok |-> TRUE, value |-> JsonOf(t[1])]
    ELSE [ok |-> FALSE, value |-> NoPrompts]

\* the markdown code block removal of generatePromptsWithLLM
StripCodeFence(content) ==
  LET c == Trim(content) IN
  Trim(IF StartsWith(c, <<Fence, WordJson>>)
         THEN StripTrailingFence(SubSeq(c, 3, Len(c)))
       ELSE IF StartsWith(c, <<Fence>>)
         THEN StripTrailingFence(SubSeq(c, 2, Len(c)))
       ELSE c)

\* the two revisions of routers/music.ts
RouterInvokeLLM == "invokeLLM"
RouterSelectedLLM == "generateWithSelectedLLM"
Routers == {RouterInvokeLLM, RouterSelectedLLM}

\* what generatePromptsWithLLM does with the reply text, per revision
ParseReply(rt, content) ==
  IF rt = RouterSelectedLLM THEN JSONParse(StripCodeFence(content))
  ELSE JSONParse(content)

\* the reply texts the prompt generator is taken to return
Replies ==
  { <<TokObj5>>,
    <<Fence, WordJson, Ws, TokObj5, Ws, Fence>>,
    <<Fence, Ws, TokObj5, Ws, Fence>>,
    <<Ws, TokObj5, Ws>>,
    <<TokObj4>>,
    <<TokObj6>>,
    <<TokArr>>,
    <<Prose>>,
    <<Fence, WordJson, Ws, Prose, Ws, Fence>>,
    <<>> }
NoReply == <<"-">>

\* ----------------------------------------------------------- the requests
\* audio content kinds: a decodable WAV, a WAV whose header music-metadata
\* reads but wav-decoder rejects, an MP3, a corrupt buffer
Audio(m, b) == [mime |-> m, buffer |-> b]
NoAudio == Audio("-", "-")
SeventeenMiB == 17 * 1024 * 1024

Input(n, sz, a) == [nameLen |-> n, size |-> sz, audio |-> a]

Inputs ==
  { Input(MaxFileNameLen, MaxFileSizeBytes, a) :
      a \in { Audio("audio/wav", "wav"), Audio("audio/wav", "wav-adpcm"),
              Audio("audio/mpeg", "mp3"), Audio("audio/wav", "corrupt") } }
  \cup { Input(MaxFileNameLen, MaxFileSizeBytes + 1, Audio("audio/mpeg", "mp3")),
         Input(MaxFileNameLen, SeventeenMiB, Audio("audio/mpeg", "mp3")),
         Input(MaxFileNameLen + 1, MaxFileSizeBytes, Audio("audio/mpeg", "mp3")) }

\* mimeType.includes("wav")
MimeIncludesWav(m) == m = "audio/wav"
\* mm.parseBuffer rejects
ParseBufferThrows(b) == b = "corrupt"
\* WavDecoder.decode rejects
WavDecoderThrows(b) == b # "wav"

NoSamples == [kind |-> "none", length |-> 0, sampleRate |-> 0, channels |-> 0]
Samples(k, n, sr, ch) == [kind |-> k, length |-> n, sampleRate |-> sr, channels |-> ch]

VARIABLES
  router,  \* the revision of routers/music.ts that serves the requests
  calls,   \* the startAnalysis calls that have no row: a bag of records
  tasks,   \* the background tasks; tasks[id] is the one started for row id
  rows,    \* table music_analyses; the row id is the index
  fn,      \* the call of a query or of a pure function being answered:
           \* its name, its input and what it returns
  llm      \* table llmSettings (llm.rows; the row id is the index) and the
           \* upsertUserLLMSettings calls made so far (llm.calls)

vars == <<router, calls, tasks, rows, fn, llm>>

\* no settings row and no call of upsertUserLLMSettings yet
NoSettings == [rows |-> <<>>, calls |-> <<>>]

\* no query and no function call is being answered
NoCall == [name |-> "none"]

\* a query procedure has answered: it returned (ok) or it threw; what it
\* returned is read off the table and is not kept
Answered(name, ok) == [name |-> name, ok |-> ok]

\* a call with its input, and the call answered with what it returned
Call(name, input) == [name |-> name, in |-> input, done |-> FALSE]
Result(call, value) ==
  [name |-> call.name, in |-> call.in, done |-> TRUE, out |-> value]

\* ------------------------------------------------------------- the table
\* a column left out of an insert takes its default: status 'pending',
\* every nullable column NULL ("NULL" for text, 0 for the storage reference)
DefaultRow ==
  [ fileName |-> 0, status |-> "pending", audioUrl |-> 0, audioKey |-> 0,
    analysis |-> "NULL", generatedPrompts |-> NoPrompts,
    errorMessage |-> "NULL" ]

\* the columns named in data replace those of row, the others are kept
Merge(row, data) ==
  [f \in DOMAIN row |-> IF f \in DOMAIN data THEN data[f] ELSE row[f]]

\* an insert that leaves the status to the column default
createMusicAnalysis_defaultStatus(table, data) ==
  Append(table, Merge(DefaultRow, [fileName |-> data.fileName]))

\* an insert that reuses the row of an earlier upload of the same file
createMusicAnalysis_deduplicated(table, data) ==
  IF \E i \in DOMAIN table : table[i].fileName = data.fileName
    THEN table
    ELSE Append(table, Merge(DefaultRow, data))

\* db.insert(musicAnalyses).values(data); the insertId is the next id
createMusicAnalysis(table, data) == Append(table, Merge(DefaultRow, data))

\* an update that has lost its where clause
updateMusicAnalysis_everyRow(table, id, data) ==
  [i \in DOMAIN table |-> Merge(table[i], data)]

\* db.update(musicAnalyses).set(data).where(eq(musicAnalyses.id, id))
updateMusicAnalysis(table, id, data) ==
  [i \in DOMAIN table |-> IF i = id THEN Merge(table[i], data) ELSE table[i]]

\* ------------------------------------------------------------ the request
\* the size limit taken as exclusive
ZodInput_exclusive(input) ==
  input.nameLen <= MaxFileNameLen /\ input.size < MaxFileSizeBytes

\* z.object({fileName: z.string().max(255), ..., fileSizeBytes:
\* z.number().max(16 * 1024 * 1024)})
ZodInput(input) ==
  input.nameLen <= MaxFileNameLen /\ input.size <= MaxFileSizeBytes

\* checks that also decode fileBase64 and hold the buffer to the limit
Validate_decoded(input) ==
  IF ~ZodInput(input) THEN "BAD_REQUEST"
  ELSE IF input.size > MaxFileSizeBytes \/ input.bytes > MaxFileSizeBytes
    THEN "File size exceeds 16MB limit"
  ELSE "ok"

\* the outcome of the checks made before the row is created
Validate(input) ==
  IF ~ZodInput(input) THEN "BAD_REQUEST"
  ELSE IF input.size > MaxFileSizeBytes THEN "File size exceeds 16MB limit"
  ELSE "ok"

\* a call of startAnalysis that has passed validation and awaits
\* createMusicAnalysis
NewCall(input) ==
  [ nameLen |-> input.nameLen, size |-> input.size, audio |-> input.audio,
    pc |-> "createMusicAnalysis", result |-> "none" ]

\* a call that ended with an error to the caller
Failed(c, why, message) ==
  [c EXCEPT !.pc = why, !.audio = NoAudio, !.result = message]

Init ==
  /\ router \in Routers
  /\ calls = EmptyBag
  /\ tasks = <<>>
  /\ rows = <<>>
  /\ fn = NoCall
  /\ llm = NoSettings

\* The handler up to its first await: the input is validated and, when it
\* passes, createMusicAnalysis is called.
StartAnalysis(input) ==
  /\ BagCardinality(calls) + Len(tasks) < MaxRequests
  /\ calls' = calls (+) SetToBag({
       IF Validate(input) = "ok" THEN NewCall(input)
       ELSE Failed(NewCall(input), "rejected", Validate(input)) })
  /\ UNCHANGED <<router, tasks, rows>>

\* the handler awaiting the task instead of detaching it: nothing is
\* returned while storagePut is in flight
SpawnAndReturn_awaited(c, id, table) ==
  [ nameLen |-> c.nameLen, size |-> c.size, audio |-> c.audio,
    pc |-> "storagePut", result |-> "none",
    statusAtReturn |-> "none",
    failed |-> "none", err |-> NoErr,
    samples |-> NoSamples, reply |-> NoReply, prompts |-> NoPrompts,
    log |-> <<>> ]

\* the detached task runs up to its first await (storagePut is in flight)
\* and the handler returns {analysisId}: the call's input and result, and
\* the locals of the task
SpawnAndReturn(c, id, table) ==
  [ nameLen |-> c.nameLen, size |-> c.size, audio |-> c.audio,
    pc |-> "storagePut", result |-> "analysisId",
    statusAtReturn |-> table[id].status,
    failed |-> "none", err |-> NoErr,
    samples |-> NoSamples, reply |-> NoReply, prompts |-> NoPrompts,
    log |-> <<>> ]

\* createMusicAnalysis settles: the row exists and the handler goes on, or
\* the insert failed and the request fails
CreateMusicAnalysisDone(c) ==
  /\ c.pc = "createMusicAnalysis"
  /\ \/ /\ rows' = createMusicAnalysis(rows,
                     [fileName |-> c.nameLen, status |-> "analyzing"])
        /\ tasks' = Append(tasks, SpawnAndReturn(c, Len(rows'), rows'))
        /\ calls' = calls (-) SetToBag({c})
     \/ /\ \E e \in DbThrows :
             calls' = (calls (-) SetToBag({c}))
                        (+) SetToBag({Failed(c, "createFailed", ErrorMessage(e))})
        /\ UNCHANGED <<tasks, rows>>
  /\ UNCHANGED router

\* catch (err): the task turns to the write of status error
Catch(q, e) ==
  [q EXCEPT !.pc = "errorWrite", !.failed = q.pc, !.err = e,
            !.audio = NoAudio, !.samples = NoSamples, !.reply = NoReply,
            !.prompts = NoPrompts]

\* storagePut settles
StoragePutDone(id) ==
  /\ tasks[id].pc = "storagePut"
  /\ \/ tasks' = [tasks EXCEPT ![id] = [@ EXCEPT !.pc = "updateRef",
                                                !.log = Append(@, "storagePut")]]
     \/ \E e \in ExternalThrows : tasks' = [tasks EXCEPT ![id] = Catch(@, e)]
  /\ UNCHANGED <<router, calls, rows>>

\* updateMusicAnalysis(analysisId, {audioUrl, audioKey}) settles; the audio
\* analysis starts with mm.parseBuffer
UpdateRefDone(id) ==
  /\ tasks[id].pc = "updateRef"
  /\ \/ /\ rows' = updateMusicAnalysis(rows, id,
                     [audioUrl |-> id, audioKey |-> id])
        /\ tasks' = [tasks EXCEPT ![id] = [@ EXCEPT !.pc = "parseBuffer",
                                                   !.log = Append(@, "updateRef")]]
     \/ /\ \E e \in DbThrows : tasks' = [tasks EXCEPT ![id] = Catch(@, e)]
        /\ UNCHANGED rows
  /\ UNCHANGED <<router, calls>>

\* decodeToPCM: the samples it resolves with; it has no rejecting path
decodeToPCM(audio) ==
  LET fallback == Samples("zeros", FallbackSamples, FallbackSampleRate,
                          FallbackChannels)
  IN IF MimeIncludesWav(audio.mime)
       THEN IF WavDecoderThrows(audio.buffer) THEN fallback
            ELSE Samples("pcm", 2 * FallbackSampleRate, FallbackSampleRate,
                         FallbackChannels)
     ELSE IF ParseBufferThrows(audio.buffer) THEN fallback
     ELSE Samples("zeros", FallbackSampleRate * PlaceholderSeconds,
                  FallbackSampleRate, FallbackChannels)

\* the prompt generator called before the analysis has run
AfterParseBuffer_skipsAnalysis(rt, q) ==
  [q EXCEPT !.pc = "llm", !.audio = NoAudio,
            !.log = Append(@, "parseBuffer")]

\* the await reached after mm.parseBuffer resolved: analyzeAudioBuffer has
\* none left and returns, advancedAnalyzeAudio enters decodeToPCM
AfterParseBuffer(rt, q) ==
  IF rt = RouterSelectedLLM
    THEN [q EXCEPT !.pc = "decodeToPCM", !.log = Append(@, "parseBuffer")]
    ELSE [q EXCEPT !.pc = "llm", !.audio = NoAudio,
                   !.log = @ \o <<"parseBuffer", "extract", "classify">>]

\* mm.parseBuffer(audioBuffer, {mimeType}), the first statement of
\* analyzeAudioBuffer and of advancedAnalyzeAudio, settles
ParseBufferDone(id) ==
  /\ tasks[id].pc = "parseBuffer"
  /\ IF ParseBufferThrows(tasks[id].audio.buffer)
       THEN \E e \in ParserThrows : tasks' = [tasks EXCEPT ![id] = Catch(@, e)]
       ELSE tasks' = [tasks EXCEPT ![id] = AfterParseBuffer(router, @)]
  /\ UNCHANGED <<router, calls, rows>>

\* decodeToPCM resolves
DecodeToPCMDone(id) ==
  /\ tasks[id].pc = "decodeToPCM"
  /\ tasks' = [tasks EXCEPT ![id] =
       [@ EXCEPT !.pc = "decoded", !.samples = decodeToPCM(tasks[id].audio),
                 !.log = Append(@, "decodeToPCM")]]
  /\ UNCHANGED <<router, calls, rows>>

\* the rest of advancedAnalyzeAudio (energy, spectrum, rhythm, vocals, then
\* mood tags and characteristics) runs without an await; the task goes on
\* to generatePromptsWithLLM
AnalysisDone(id) ==
  /\ tasks[id].pc = "decoded"
  /\ tasks' = [tasks EXCEPT ![id] =
       [@ EXCEPT !.pc = "llm", !.audio = NoAudio, !.samples = NoSamples,
                 !.log = @ \o <<"extract", "classify">>]]
  /\ UNCHANGED <<router, calls, rows>>

\* the prompt generator settles: a reply text, or a rejection
LLMDone(id) ==
  /\ tasks[id].pc = "llm"
  /\ \/ \E content \in Replies :
          tasks' = [tasks EXCEPT ![id] = [@ EXCEPT !.pc = "parsePrompts",
                                                  !.reply = content]]
     \/ \E e \in ExternalThrows : tasks' = [tasks EXCEPT ![id] = Catch(@, e)]
  /\ UNCHANGED <<router, calls, rows>>

\* the tail of generatePromptsWithLLM: the reply is cleaned and parsed, and
\* whatever JSON.parse returns is what the task goes on to persist
AfterReply(rt, q) ==
  LET parsed == ParseReply(rt, q.reply)
  IN IF parsed.ok
       THEN [q EXCEPT !.pc = "finalWrite", !.prompts = parsed.value,
                      !.reply = NoReply, !.log = Append(@, "generate")]
       ELSE Catch(q, SyntaxError)

ParsePromptsDone(id) ==
  /\ tasks[id].pc = "parsePrompts"
  /\ tasks' = [tasks EXCEPT ![id] = AfterReply(router, @)]
  /\ UNCHANGED <<router, calls, rows>>

\* a statement after the write of status done that throws into the catch
AfterFinalWrite_throws(q) ==
  [q EXCEPT !.pc = "errorWrite", !.failed = "afterFinalWrite",
            !.err = JsError("late failure"), !.prompts = NoPrompts,
            !.log = Append(@, "finalWrite")]

\* the task is over: nothing follows the write of status done
AfterFinalWrite(q) ==
  [q EXCEPT !.pc = "finished", !.prompts = NoPrompts,
            !.log = Append(@, "finalWrite")]

\* updateMusicAnalysis(analysisId, {...features, generatedPrompts,
\* status: "done"}) settles
FinalWriteDone(id) ==
  /\ tasks[id].pc = "finalWrite"
  /\ \/ /\ rows' = updateMusicAnalysis(rows, id,
                     [analysis |-> "FeatureSet",
                      generatedPrompts |-> tasks[id].prompts,
                      status |-> "done"])
        /\ tasks' = [tasks EXCEPT ![id] = AfterFinalWrite(@)]
     \/ /\ \E e \in DbThrows : tasks' = [tasks EXCEPT ![id] = Catch(@, e)]
        /\ UNCHANGED rows
  /\ UNCHANGED <<router, calls>>

\* a catch block that also resets the storage reference
ErrorData_clearsRef(err) ==
  [status |-> "error", errorMessage |-> ErrorMessage(err),
   audioUrl |-> 0, audioKey |-> 0]

\* the columns the catch block writes
ErrorData(err) == [status |-> "error", errorMessage |-> ErrorMessage(err)]

\* updateMusicAnalysis(analysisId, {status: "error", errorMessage}) settles;
\* when it rejects, nothing awaits the task's promise
ErrorWriteDone(id) ==
  /\ tasks[id].pc = "errorWrite"
  /\ \/ /\ rows' = updateMusicAnalysis(rows, id, ErrorData(tasks[id].err))
        /\ tasks' = [tasks EXCEPT ![id] = [@ EXCEPT !.pc = "finished",
                                                   !.log = Append(@, "errorWrite")]]
     \/ /\ tasks' = [tasks EXCEPT ![id] = [@ EXCEPT !.pc = "crashed"]]
        /\ UNCHANGED rows
  /\ UNCHANGED <<router, calls>>

\* one step of the background task of row id
Step(id) ==
  \/ StoragePutDone(id)
  \/ UpdateRefDone(id)
  \/ ParseBufferDone(id)
  \/ DecodeToPCMDone(id)
  \/ AnalysisDone(id)
  \/ LLMDone(id)
  \/ ParsePromptsDone(id)
  \/ FinalWriteDone(id)
  \/ ErrorWriteDone(id)

Next ==
  \/ (\E input \in Inputs : StartAnalysis(input)) /\ UNCHANGED <<fn, llm>>
  \/ (\E c \in BagToSet(calls) : CreateMusicAnalysisDone(c))
       /\ UNCHANGED <<fn, llm>>
  \/ (\E id \in 1..Len(tasks) : Step(id)) /\ UNCHANGED <<fn, llm>>

Spec == Init /\ [][Next]_vars

\* ------------------------------------------------------------ the queries
ListLimit == 20

\* a selected row: the columns of the row and its id (the autoincrement
\* primary key is the position in the table)
Selected(table, id) == [id |-> id] @@ table[id]

\* db.select().from(musicAnalyses).where(eq(musicAnalyses.id, id)).limit(1):
\* result[0], undefined when no row has the id
\* a select that takes the first row whatever the id
getMusicAnalysis_firstRow(table, id) ==
  IF table # <<>> THEN <<Selected(table, 1)>> ELSE <<>>

getMusicAnalysis(table, id) ==
  IF id \in DOMAIN table THEN <<Selected(table, id)>> ELSE <<>>

\* the rows with status done, ordered by createdAt ascending: a row
\* inserted later has the larger id and a createdAt that is not earlier
RECURSIVE DoneRows(_, _)
DoneRows(table, i) ==
  IF i > Len(table) THEN <<>>
  ELSE (IF table[i].status = "done" THEN <<Selected(table, i)>> ELSE <<>>)
         \o DoneRows(table, i + 1)

\* a select without its limit
listMusicAnalyses_noLimit(table, limit) == DoneRows(table, 1)

\* db.select()...where(eq(status, "done")).orderBy(createdAt).limit(limit)
listMusicAnalyses(table, limit) ==
  LET found == DoneRows(table, 1)
  IN SubSeq(found, 1, IF Len(found) < limit THEN Len(found) ELSE limit)

\* what a procedure gives its caller: a value, or a thrown value
Returned(value) == [ok |-> TRUE, value |-> value]
Thrown(e) == [ok |-> FALSE, error |-> e]

\* const analysis = await getMusicAnalysis(input.id);
\* if (!analysis) throw new Error("Analysis not found"); return analysis;
getAnalysis(table, id) ==
  LET analysis == getMusicAnalysis(table, id)
  IN IF analysis = <<>> THEN Thrown(JsError("Analysis not found"))
     ELSE Returned(analysis[1])

\* return await listMusicAnalyses(20);
listAnalyses(table) == Returned(listMusicAnalyses(table, ListLimit))

\* getAnalysis({id}): the row, "Analysis not found", or the error of the
\* database; the answer goes to the caller and nothing is stored; one
\* query is answered at a time
GetAnalysis(id) ==
  /\ fn.name = "none"
  /\ \/ fn' = Answered("getAnalysis", getAnalysis(rows, id).ok)
     \/ \E e \in DbThrows : fn' = Answered("getAnalysis", Thrown(e).ok)
  /\ UNCHANGED <<router, calls, tasks, rows, llm>>

\* listAnalyses(): the done rows, at most 20, or the error of the database
ListAnalyses ==
  /\ fn.name = "none"
  /\ \/ fn' = Answered("listAnalyses", listAnalyses(rows).ok)
     \/ \E e \in DbThrows : fn' = Answered("listAnalyses", Thrown(e).ok)
  /\ UNCHANGED <<router, calls, tasks, rows, llm>>

\* the uploads made while the queries are watched: a decodable file and
\* an oversized one (no column of a row holds the audio)
PolledInputs ==
  { Input(MaxFileNameLen, MaxFileSizeBytes, Audio("audio/wav", "wav")),
    Input(MaxFileNameLen, SeventeenMiB, Audio("audio/wav", "wav")) }

\* the router with its three procedures; the answer of a query is gone
\* once the next step is taken
QueryNext ==
  \/ (\E input \in PolledInputs : StartAnalysis(input))
       /\ fn' = NoCall /\ UNCHANGED llm
  \/ (\E c \in BagToSet(calls) : CreateMusicAnalysisDone(c))
       /\ fn' = NoCall /\ UNCHANGED llm
  \/ (\E id \in 1..Len(tasks) : Step(id)) /\ fn' = NoCall /\ UNCHANGED llm
  \/ \E id \in 1..(Len(rows) + 1) : GetAnalysis(id)
  \/ ListAnalyses

QuerySpec == Init /\ [][QueryNext]_vars

\* ------------------------------------------- the queries on a long table
\* The server has been running for a while: the table holds the jobs of
\* the requests served so far, no request is in flight, and the two query
\* procedures are called; here the whole answer is kept.
MaxSurplus == 3
TableLens == 0..(ListLimit + MaxSurplus)

\* the row of a job: inserted by startAnalysis with status analyzing,
\* then set to done or to error by its task
JobRow(status) ==
  Merge(DefaultRow, [fileName |-> MaxFileNameLen, status |-> status])

\* n jobs, all done but job a (still analyzing) and job b (failed);
\* 0 stands for no such job
JobTable(n, a, b) ==
  [i \in 1..n |-> JobRow(IF i = a THEN "analyzing"
                         ELSE IF i = b THEN "error" ELSE "done")]

JobTables ==
  { JobTable(t[1], t[2], t[3]) :
      t \in { x \in TableLens \X TableLens \X TableLens :
                 x[2] <= x[1] /\ x[3] <= x[1] } }

TableInit ==
  /\ router = RouterSelectedLLM
  /\ calls = EmptyBag
  /\ tasks = <<>>
  /\ rows \in JobTables
  /\ fn = NoCall
  /\ llm = NoSettings

\* getAnalysis({id}) answers: the row, "Analysis not found", or the error
\* of the database
GetAnalysisAnswer(id) ==
  /\ \/ fn' = Result(Call("getAnalysis", id), getAnalysis(rows, id))
     \/ \E e \in DbThrows : fn' = Result(Call("getAnalysis", id), Thrown(e))
  /\ UNCHANGED <<router, calls, tasks, rows, llm>>

\* listAnalyses() answers: the list, or the error of the database
ListAnalysesAnswer ==
  /\ \/ fn' = Result(Call("listAnalyses", <<>>), listAnalyses(rows))
     \/ \E e \in DbThrows : fn' = Result(Call("listAnalyses", <<>>), Thrown(e))
  /\ UNCHANGED <<router, calls, tasks, rows, llm>>

\* the ids polled: the first job, the last, every job that is not done,
\* and the id after the last, which no job has
PolledIds ==
  ({1, Len(rows)} \cup {i \in DOMAIN rows : rows[i].status # "done"}
     \cup {Len(rows) + 1}) \ {0}

TableNext ==
  \/ \E id \in PolledIds : GetAnalysisAnswer(id)
  \/ ListAnalysesAnswer

TableSpec == TableInit /\ [][TableNext]_vars

\* ------------------------------------------------------- the LLM settings
\* setLLMSettings calls upsertUserLLMSettings(ctx.user.id, provider, apiKey,
\* openaiModel, googleModel); an argument left out is undefined. Each await
\* of the function is a step, and calls of several requests interleave.
MaxUpserts == 2
UserIds == {1, 2}
Undefined == "undefined"

\* a || b on strings, undefined and NULL
Or(a, b) == IF a \in {Undefined, "NULL", ""} THEN b ELSE a

\* db.select().from(llmSettings).where(eq(userId)).limit(1): result[0],
\* or null
getUserLLMSettings(table, userId) ==
  LET found == {i \in DOMAIN table : table[i].userId = userId}
  IN IF found = {} THEN <<>>
     ELSE <<table[CHOOSE i \in found : \A j \in found : i <= j]>>

\* the arguments of a call and where it stands
Upsert(userId, provider, apiKey, openaiModel, googleModel) ==
  [ userId |-> userId, provider |-> provider, apiKey |-> apiKey,
    openaiModel |-> openaiModel, googleModel |-> googleModel,
    pc |-> "getUserLLMSettings", existing |-> <<>> ]

\* upsertUserLLMSettings up to its first await: without a database it
\* returns at once, otherwise it awaits getUserLLMSettings
SetLLMSettings(userId, provider, apiKey) ==
  /\ Len(llm.calls) < MaxUpserts
  /\ LET c == Upsert(userId, provider, apiKey, Undefined, Undefined)
     IN \/ llm' = [llm EXCEPT !.calls = Append(@, c)]
        \/ llm' = [llm EXCEPT !.calls = Append(@, [c EXCEPT !.pc = "returned"])]
  /\ UNCHANGED <<router, calls, tasks, rows, fn>>

\* const existing = await getUserLLMSettings(userId) resolves
GetUserLLMSettingsDone(k) ==
  /\ llm.calls[k].pc = "getUserLLMSettings"
  /\ LET existing == getUserLLMSettings(llm.rows, llm.calls[k].userId)
     IN llm' = [llm EXCEPT !.calls[k] =
                  [@ EXCEPT !.existing = existing,
                            !.pc = IF existing # <<>> THEN "update"
                                   ELSE "insert"]]
  /\ UNCHANGED <<router, calls, tasks, rows, fn>>

\* the row db.update(llmSettings).set({...}) makes of a row
UpdatedSettings(row, c) ==
  [ row EXCEPT !.provider = c.provider,
               !.apiKey = Or(c.apiKey, c.existing[1].apiKey),
               !.openaiModel = Or(c.openaiModel, c.existing[1].openaiModel),
               !.googleModel = Or(c.googleModel, c.existing[1].googleModel) ]

\* await db.update(llmSettings).set({...}).where(eq(userId)) resolves
UpdateSettingsDone(k) ==
  /\ llm.calls[k].pc = "update"
  /\ llm' = [llm EXCEPT
               !.rows = [i \in DOMAIN @ |->
                           IF @[i].userId = llm.calls[k].userId
                             THEN UpdatedSettings(@[i], llm.calls[k])
                             ELSE @[i]],
               !.calls[k] = [@ EXCEPT !.pc = "returned"]]
  /\ UNCHANGED <<router, calls, tasks, rows, fn>>

\* the row db.insert(llmSettings).values({...}) adds
InsertedSettings(c) ==
  [ userId |-> c.userId, provider |-> c.provider,
    apiKey |-> IF c.apiKey = Undefined THEN "NULL" ELSE c.apiKey,
    openaiModel |-> Or(c.openaiModel, "gpt-3.5-turbo"),
    googleModel |-> Or(c.googleModel, "gemini-pro") ]

\* await db.insert(llmSettings).values({...}) resolves
InsertSettingsDone(k) ==
  /\ llm.calls[k].pc = "insert"
  /\ llm' = [llm EXCEPT
               !.rows = Append(@, InsertedSettings(llm.calls[k])),
               !.calls[k] = [@ EXCEPT !.pc = "returned"]]
  /\ UNCHANGED <<router, calls, tasks, rows, fn>>

SettingsNext ==
  \/ \E u \in UserIds, p \in {"openai", "google"}, key \in {Undefined, "sk-key"} :
       SetLLMSettings(u, p, key)
  \/ \E k \in 1..Len(llm.calls) : GetUserLLMSettingsDone(k)
  \/ \E k \in 1..Len(llm.calls) : UpdateSettingsDone(k)
  \/ \E k \in 1..Len(llm.calls) : InsertSettingsDone(k)

SettingsSpec == Init /\ [][SettingsNext]_vars

\* ================================================ the analysis functions
\* A pure function of the analysis modules is called on an input (fn holds
\* the call) and answers (fn holds the call and what it returned).
\* The JavaScript numbers the functions return, each exact: NaN, a fraction
\* num / den with den > 0, the square root of a fraction q, and 1 minus the
\* square root of a fraction q.
NaN == [kind |-> "NaN"]
Rat(n, d) == [kind |-> "rat", num |-> n, den |-> d]
Sqrt(q) == [kind |-> "sqrt", num |-> q.num, den |-> q.den]
OneMinusSqrt(q) == [kind |-> "oneMinusSqrt", num |-> q.num, den |-> q.den]
RatEq(a, b) == a.kind = "rat" /\ b.kind = "rat" /\ a.num * b.den = b.num * a.den
RatLeq(a, b) == a.num * b.den <= b.num * a.den

RECURSIVE GCD(_, _)
GCD(a, b) == IF b = 0 THEN a ELSE GCD(b, a % b)
Abs(x) == IF x < 0 THEN -x ELSE x
\* the fraction n / d in lowest terms, the denominator positive
Reduced(n, d) ==
  LET g == GCD(Abs(n), Abs(d))
      s == IF d < 0 THEN -1 ELSE 1
  IN Rat(s * (n \div g), s * (d \div g))
RatAdd(a, b) == Reduced(a.num * b.den + b.num * a.den, a.den * b.den)
RatSub(a, b) == Reduced(a.num * b.den - b.num * a.den, a.den * b.den)
RatMul(a, b) == Reduced(a.num * b.num, a.den * b.den)
\* a / b for fractions; 0 / 0 is NaN (no function here divides a non-zero
\* number by 0)
RatDiv(a, b) ==
  IF b.num = 0 THEN NaN ELSE Reduced(a.num * b.den, a.den * b.num)

\* Math.round of a non-negative fraction
RoundRat(q) == (2 * q.num + q.den) \div (2 * q.den)

\* Math.min(x, 1) for a non-negative number: NaN stays NaN
MinOne(x) ==
  IF x.kind = "NaN" THEN NaN
  ELSE IF x.kind = "oneMinusSqrt" THEN x
  ELSE IF x.num > x.den THEN Rat(1, 1)
  ELSE x

\* x is a number between 0 and 1, the ends included
InUnitInterval(x) ==
  x.kind # "NaN" /\ x.den > 0 /\ 0 <= x.num /\ x.num <= x.den

\* a float that is computed but whose value is not followed further
Float(expression) == [kind |-> "float", expression |-> expression]

\* -------------------------------------------------------- analyzeSpectrum
\* const fftSize = 2048
FftSize == 2048
BassLimitHz == 250
MidLimitHz == 4000
FallbackCentroid == 2000
FallbackSpread == 1000

\* The FFT (fft.js) turns the first 2048 samples, padded with zeros, into
\* the magnitudes of 1024 bins. A window enters analyzeSpectrum here as
\* its magnitude spectrum, given on the bins of ProbeBins and 0 on every
\* other bin; an empty or all-zero window has the all-zero spectrum.
\* The bins around the band limits at 44100 Hz (bin 11 is below 250 Hz at
\* 44100 Hz and above it at 48000 Hz), the first and the last bin:
ProbeBins == {0, 11, 12, 185, 186, 1023}

RECURSIVE SumBins(_, _)
SumBins(bins, weight) ==
  IF bins = {} THEN 0
  ELSE LET i == CHOOSE x \in bins : TRUE
       IN weight[i] + SumBins(bins \ {i}, weight)

\* bassEnergy + midEnergy + trebleEnergy || 1
TotalEnergy(sum) == IF sum = 0 THEN 1 ELSE sum

\* analyzeSpectrum from the magnitudes on; freq = (i * sampleRate) / fftSize
analyzeSpectrum(magnitude, sampleRate) ==
  LET bins == DOMAIN magnitude
      totalMagnitude == SumBins(bins, magnitude)
      weightedSum ==   \* times fftSize
        SumBins(bins, [i \in bins |-> i * sampleRate * magnitude[i]])
      bassBins == {i \in bins : i * sampleRate < BassLimitHz * FftSize}
      midBins == {i \in bins \ bassBins : i * sampleRate < MidLimitHz * FftSize}
      trebleBins == (bins \ bassBins) \ midBins
      bassEnergy == SumBins(bassBins, magnitude)
      midEnergy == SumBins(midBins, magnitude)
      trebleEnergy == SumBins(trebleBins, magnitude)
      totalEnergy == TotalEnergy(bassEnergy + midEnergy + trebleEnergy)
  IN [ centroid |-> IF totalMagnitude > 0
                      THEN RoundRat(Rat(weightedSum, FftSize * totalMagnitude))
                      ELSE FallbackCentroid,
       spread |-> IF totalMagnitude > 0
                    THEN Float("Math.round(Math.sqrt(spreadSum / totalMagnitude))")
                    ELSE Rat(FallbackSpread, 1),
       bass |-> Rat(bassEnergy, totalEnergy),
       mid |-> Rat(midEnergy, totalEnergy),
       treble |-> Rat(trebleEnergy, totalEnergy) ]

\* ------------------------------------- energy, rhythm and vocal features
\* A decoded signal is a sequence of blocks of BlockSamples samples. All
\* samples of a block have the same absolute value, amplitude / SampleScale;
\* their signs are free, so the spectrum of the first window is not fixed
\* by the amplitudes, except that a zero window has the zero spectrum.
BlockSamples == 14700
SampleScale == 2
MaxAmplitude == 2

SampleCount(samples) == Len(samples) * BlockSamples

\* the sum of the fractions s[lo], ..., s[hi], by halves
RECURSIVE SumRange(_, _, _)
SumRange(s, lo, hi) ==
  IF lo > hi THEN Rat(0, 1)
  ELSE IF lo = hi THEN s[lo]
  ELSE RatAdd(SumRange(s, lo, (lo + hi) \div 2),
              SumRange(s, ((lo + hi) \div 2) + 1, hi))

SumSeq(s) == SumRange(s, 1, Len(s))

\* Math.max(...s) of a non-empty sequence of fractions
MaxSeq(s) ==
  s[CHOOSE i \in 1..Len(s) : \A j \in 1..Len(s) : RatLeq(s[j], s[i])]

\* Math.sqrt of a fraction in lowest terms, or of NaN
MathSqrt(x) ==
  IF x.kind = "NaN" THEN NaN
  ELSE IF \E n \in 0..x.num, d \in 1..x.den : n * n = x.num /\ d * d = x.den
    THEN LET n == CHOOSE r \in 0..x.num : r * r = x.num
             d == CHOOSE r \in 1..x.den : r * r = x.den
         IN Rat(n, d)
  ELSE Sqrt(x)

\* x > y for a number x and a fraction y; false when x is NaN
Greater(x, y) ==
  CASE x.kind = "NaN" -> FALSE
    [] x.kind = "rat" -> ~RatLeq(x, y)
    [] x.kind = "sqrt" -> ~RatLeq(x, RatMul(y, y))
    [] x.kind = "oneMinusSqrt" ->
         RatLeq(y, Rat(1, 1))
         /\ ~RatLeq(RatMul(RatSub(Rat(1, 1), y), RatSub(Rat(1, 1), y)), x)

\* x < y for a number x and a fraction y; false when x is NaN
Less(x, y) ==
  x.kind # "NaN" /\ ~Greater(x, y)
  /\ ~(x.kind = "rat" /\ RatEq(x, y))
  /\ ~(x.kind = "sqrt" /\ RatEq(x, RatMul(y, y)))
  /\ ~(x.kind = "oneMinusSqrt"
       /\ RatEq(x, RatMul(RatSub(Rat(1, 1), y), RatSub(Rat(1, 1), y))))

\* the sum of samples[i] * samples[i] over all samples
SumOfSquares(samples) ==
  SumSeq([b \in 1..Len(samples) |->
            Reduced(samples[b] * samples[b] * BlockSamples,
                    SampleScale * SampleScale)])

calculateRMSEnergy(samples) ==
  LET sum == SumOfSquares(samples)
      rms == MathSqrt(RatDiv(sum, Rat(SampleCount(samples), 1)))
  IN MinOne(rms)

calculatePeakLevel(samples) ==
  LET peak == IF samples = <<>> THEN Rat(0, 1)
              ELSE MaxSeq([b \in 1..Len(samples) |->
                             Reduced(samples[b], SampleScale)])
  IN MinOne(peak)

Min(a, b) == IF a < b THEN a ELSE b
Max(a, b) == IF a > b THEN a ELSE b

\* the sum of Math.abs(samples[j]) for start <= j < end over the samples
\* of blocks b and later, times SampleScale
RECURSIVE AbsSum(_, _, _, _)
AbsSum(samples, start, end, b) ==
  IF b > Len(samples) \/ (b - 1) * BlockSamples >= end THEN 0
  ELSE LET overlap == Max(0, Min(end, b * BlockSamples)
                               - Max(start, (b - 1) * BlockSamples))
       IN overlap * samples[b] + AbsSum(samples, start, end, b + 1)

\* beatEnergies.length > 0 ? Math.max(...beatEnergies) / avgEnergy : 0.5
DrumIntensity(beatEnergies, avgEnergy) ==
  IF Len(beatEnergies) > 0
    THEN IF avgEnergy.kind = "NaN" THEN NaN
         ELSE RatDiv(MaxSeq(beatEnergies), avgEnergy)
    ELSE Rat(5, 10)

\* the mean of Math.abs(samples[j]) over each whole beat frame of
\* Math.round((sampleRate * 60) / bpm) samples
BeatEnergies(samples, sampleRate, bpm) ==
  LET beatFrameSize == RoundRat(Rat(sampleRate * 60, bpm))
      numBeats == SampleCount(samples) \div beatFrameSize
  IN [i \in 1..numBeats |->
        LET start == (i - 1) * beatFrameSize
            end == Min(start + beatFrameSize, SampleCount(samples))
            energy == AbsSum(samples, start, end,
                             (start \div BlockSamples) + 1)
        IN Reduced(energy, SampleScale * (end - start))]

\* Math.max(...[]) and what it gives when divided by a positive number
NegInfinity == [kind |-> "-Infinity"]

\* analyzeRhythm of the comprehensive analysis: x || 0.1 replaces a mean
\* that is 0 or NaN, and the largest frame energy is taken of any list
comprehensiveAnalyzeRhythm(samples, sampleRate, bpm) ==
  LET beatEnergies == BeatEnergies(samples, sampleRate, bpm)
      mean == RatDiv(SumSeq(beatEnergies), Rat(Len(beatEnergies), 1))
      avgEnergy == IF mean.kind = "NaN" \/ mean.num = 0 THEN Rat(1, 10)
                   ELSE mean
      percussionIntensity ==
        IF Len(beatEnergies) = 0 THEN NegInfinity
        ELSE MinOne(RatDiv(MaxSeq(beatEnergies), avgEnergy))
      drumCharacteristics ==
        IF percussionIntensity = NegInfinity THEN "muffled"
        ELSE IF Greater(percussionIntensity, Rat(8, 10)) THEN "punchy"
        ELSE IF Greater(percussionIntensity, Rat(6, 10)) THEN "crisp"
        ELSE IF Less(percussionIntensity, Rat(3, 10)) THEN "muffled"
        ELSE "steady"
  IN [ bpm |-> bpm,
       timeSignature |-> IF bpm < 80 THEN "3/4" ELSE "4/4",
       drumCharacteristics |-> drumCharacteristics,
       percussionIntensity |-> percussionIntensity ]

analyzeRhythm(samples, sampleRate, bpm) ==
  LET beatEnergies == BeatEnergies(samples, sampleRate, bpm)
      numBeats == Len(beatEnergies)
      avgEnergy == RatDiv(SumSeq(beatEnergies), Rat(numBeats, 1))
      squares == [i \in 1..numBeats |->
                    LET d == RatSub(beatEnergies[i], avgEnergy)
                    IN RatMul(d, d)]
      variance == IF avgEnergy.kind = "NaN" THEN NaN
                  ELSE RatDiv(SumSeq(squares), Rat(numBeats, 1))
      \* Math.sqrt(variance) / avgEnergy, squared
      ratioSquared == IF variance.kind = "NaN" THEN NaN
                      ELSE RatDiv(variance, RatMul(avgEnergy, avgEnergy))
      \* Math.max(0, 1 - Math.sqrt(variance) / avgEnergy)
      regularity ==
        IF ratioSquared.kind = "NaN" THEN NaN
        ELSE IF RatLeq(Rat(1, 1), ratioSquared) THEN Rat(0, 1)
        ELSE IF ratioSquared.num = 0 THEN Rat(1, 1)
        ELSE OneMinusSqrt(ratioSquared)
      drumIntensity == MinOne(DrumIntensity(beatEnergies, avgEnergy))
      percussionChar ==
        IF Greater(drumIntensity, Rat(8, 10)) THEN "punchy"
        ELSE IF Greater(drumIntensity, Rat(6, 10)) THEN "crisp"
        ELSE IF Less(drumIntensity, Rat(3, 10)) THEN "muffled"
        ELSE "moderate"
  IN [ regularity |-> MinOne(regularity),
       drumIntensity |-> MinOne(drumIntensity),
       percussionChar |-> percussionChar ]

analyzeVocals(spectralCentroid, midPresence) ==
  LET vocalPresence == RatAdd(RatMul(midPresence, Rat(8, 10)), Rat(2, 10))
      tone == IF spectralCentroid < 1000 THEN "warm"
              ELSE IF spectralCentroid < 2000 THEN "balanced"
              ELSE IF spectralCentroid < 4000 THEN "bright"
              ELSE "crisp"
      range == IF spectralCentroid < 1500 THEN "low"
               ELSE IF spectralCentroid > 3500 THEN "high"
               ELSE "mid"
  IN [ presence |-> MinOne(vocalPresence), tone |-> tone, range |-> range ]

\* the part of advancedAnalyzeAudio between decodeToPCM and the mood tags:
\* the numeric features of the FeatureSet it returns
AdvancedFeatures(samples, sampleRate, bpm, magnitude) ==
  LET rmsEnergy == calculateRMSEnergy(samples)
      peakLevel == calculatePeakLevel(samples)
      spectrum == analyzeSpectrum(magnitude, sampleRate)
      rhythm == analyzeRhythm(samples, sampleRate, bpm)
      vocals == analyzeVocals(spectrum.centroid, spectrum.mid)
  IN [ bpm |-> bpm,
       rms_energy |-> rmsEnergy,
       peak_level |-> peakLevel,
       spectral_centroid_hz |-> spectrum.centroid,
       spectral_spread |-> spectrum.spread,
       bass_presence |-> spectrum.bass,
       mid_presence |-> spectrum.mid,
       treble_presence |-> spectrum.treble,
       rhythm_regularity |-> rhythm.regularity,
       drum_intensity |-> rhythm.drumIntensity,
       percussion_characteristics |-> rhythm.percussionChar,
       vocal_presence |-> vocals.presence,
       vocal_tone |-> vocals.tone,
       vocal_range |-> vocals.range ]

\* new Float32Array(sampleRate * 10) at 44100 Hz, and the 441000 zeros of
\* the catch branch of decodeToPCM
ZeroPlaceholder == [b \in 1..((FallbackSampleRate * PlaceholderSeconds)
                                \div BlockSamples) |-> 0]

\* the signals a WAV file decodes to, and the placeholder
Signals ==
  UNION {[1..n -> 0..MaxAmplitude] : n \in 0..MaxBlocks} \cup {ZeroPlaceholder}

\* the first fftSize samples are all zero, or there are none
ZeroWindow(samples) == samples = <<>> \/ samples[1] = 0

\* three bins, one in each band at 44100 Hz
BandBins == {11, 12, 186}
ZeroSpectrumOn(bins) == [i \in bins |-> 0]

\* the spectra with magnitudes on the bins of BandBins only
BandSpectra ==
  {[i \in ProbeBins |-> IF i \in BandBins THEN m[i] ELSE 0] :
     m \in [BandBins -> 0..MaxMagnitude]}

\* a spectrum the first window of a signal can have: zero for a zero
\* window and for no other
WindowSpectrum(samples, magnitude) ==
  ZeroWindow(samples) <=> magnitude = ZeroSpectrumOn(ProbeBins)

\* bpm as advancedAnalyzeAudio passes it on: the rounded tag, or 90
FeatureBpms == {60, 90, 120, 180}

FeatureInputs ==
  {i \in [ samples : Signals, sampleRate : {FallbackSampleRate},
           bpm : FeatureBpms, magnitude : BandSpectra ] :
     WindowSpectrum(i.samples, i.magnitude)}

ExtractFeatures ==
  /\ fn.name = "advancedAnalyzeAudio" /\ ~fn.done
  /\ fn' = Result(fn, AdvancedFeatures(fn.in.samples, fn.in.sampleRate,
                                       fn.in.bpm, fn.in.magnitude))
  /\ UNCHANGED <<router, calls, tasks, rows, llm>>

\* the signals and tempi the comprehensive analyzeRhythm is called on
RhythmInputs ==
  [samples : Signals, sampleRate : {FallbackSampleRate}, bpm : FeatureBpms]

AnalyzeRhythm ==
  /\ fn.name = "analyzeRhythm" /\ ~fn.done
  /\ fn' = Result(fn, comprehensiveAnalyzeRhythm(fn.in.samples,
                                                 fn.in.sampleRate, fn.in.bpm))
  /\ UNCHANGED <<router, calls, tasks, rows, llm>>

\* the magnitude spectra and sample rates analyzeSpectrum is called on
SpectrumInputs ==
  [ magnitude : [ProbeBins -> 0..MaxMagnitude],
    sampleRate : {44100, 48000} ]

AnalyzeSpectrum ==
  /\ fn.name = "analyzeSpectrum" /\ ~fn.done
  /\ fn' = Result(fn, analyzeSpectrum(fn.in.magnitude, fn.in.sampleRate))
  /\ UNCHANGED <<router, calls, tasks, rows, llm>>

\* ------------------------------------------------------------ detectGenre
\* GENRE_PROFILES in the order of Object.entries (the order of declaration);
\* the energies are in hundredths (0.2 is 20)
GENRE_PROFILES ==
  << [key |-> "ballad", name |-> "Ballad", bpmRange |-> <<60, 90>>,
      energyRange |-> <<20, 50>>, spectralRange |-> <<1000, 2500>>],
     [key |-> "edm", name |-> "EDM", bpmRange |-> <<120, 150>>,
      energyRange |-> <<60, 100>>, spectralRange |-> <<2000, 8000>>],
     [key |-> "rock", name |-> "Rock", bpmRange |-> <<90, 140>>,
      energyRange |-> <<50, 90>>, spectralRange |-> <<1500, 4000>>],
     [key |-> "jazz", name |-> "Jazz", bpmRange |-> <<70, 120>>,
      energyRange |-> <<30, 70>>, spectralRange |-> <<1000, 5000>>],
     [key |-> "hiphop", name |-> "Hip-Hop", bpmRange |-> <<70, 110>>,
      energyRange |-> <<40, 80>>, spectralRange |-> <<500, 3000>>],
     [key |-> "classical", name |-> "Classical", bpmRange |-> <<40, 180>>,
      energyRange |-> <<20, 80>>, spectralRange |-> <<500, 8000>>],
     [key |-> "pop", name |-> "Pop", bpmRange |-> <<90, 120>>,
      energyRange |-> <<50, 80>>, spectralRange |-> <<1500, 4000>>] >>

\* x >= range[0] && x <= range[1]
InRange(x, range) == x >= range[1] /\ x <= range[2]

\* the score of one profile: 30 for the bpm, 30 for the energy, 40 for the
\* spectral centroid
GenreScore(profile, bpm, rmsEnergy, spectralCentroid) ==
  (IF InRange(bpm, profile.bpmRange) THEN 30 ELSE 0)
  + (IF InRange(rmsEnergy, profile.energyRange) THEN 30 ELSE 0)
  + (IF InRange(spectralCentroid, profile.spectralRange) THEN 40 ELSE 0)

\* a later profile of equal score replacing the best one
Better_orEqual(score, bestScore) == score >= bestScore

\* if (score > bestScore)
Better(score, bestScore) == score > bestScore

\* the loop over the profiles from the i-th on, best being
\* [match |-> bestMatch, score |-> bestScore] so far
RECURSIVE GenreLoop(_, _, _, _, _)
GenreLoop(i, best, bpm, rmsEnergy, spectralCentroid) ==
  IF i > Len(GENRE_PROFILES) THEN best
  ELSE LET score == GenreScore(GENRE_PROFILES[i], bpm, rmsEnergy,
                               spectralCentroid)
       IN GenreLoop(i + 1,
                    IF Better(score, best.score)
                      THEN [match |-> GENRE_PROFILES[i].key, score |-> score]
                      ELSE best,
                    bpm, rmsEnergy, spectralCentroid)

\* GENRE_PROFILES[bestMatch]
ProfileOf(key) ==
  GENRE_PROFILES[CHOOSE i \in DOMAIN GENRE_PROFILES :
                   GENRE_PROFILES[i].key = key]

\* detectGenre(bpm, rmsEnergy, spectralCentroid): bestMatch starts as
\* "pop" and bestScore as 0
detectGenre(bpm, rmsEnergy, spectralCentroid) ==
  LET best == GenreLoop(1, [match |-> "pop", score |-> 0], bpm, rmsEnergy,
                        spectralCentroid)
  IN [ detectedGenre |-> ProfileOf(best.match).name,
       genreConfidence |-> IF best.score > 100 THEN Rat(1, 1)
                           ELSE Rat(best.score, 100) ]

\* the ends of a range and their neighbours
Around(range) ==
  {range[1] - 1, range[1], range[1] + 1, range[2] - 1, range[2], range[2] + 1}

\* the inputs detectGenre is called on: the ends of every range of every
\* profile, their neighbours, and the point of the scoring scenario
GenreInputs ==
  [ bpm : {0, 125}
          \cup UNION {Around(GENRE_PROFILES[i].bpmRange) :
                        i \in DOMAIN GENRE_PROFILES},
    rmsEnergy : {0, 75}
          \cup UNION {Around(GENRE_PROFILES[i].energyRange) :
                        i \in DOMAIN GENRE_PROFILES},
    spectralCentroid : {0, 3000}
          \cup UNION {{GENRE_PROFILES[i].spectralRange[1] - 1,
                        GENRE_PROFILES[i].spectralRange[1],
                        GENRE_PROFILES[i].spectralRange[2],
                        GENRE_PROFILES[i].spectralRange[2] + 1} :
                        i \in DOMAIN GENRE_PROFILES} ]

DetectGenre ==
  /\ fn.name = "detectGenre" /\ ~fn.done
  /\ fn' = Result(fn, detectGenre(fn.in.bpm, fn.in.rmsEnergy,
                                  fn.in.spectralCentroid))
  /\ UNCHANGED <<router, calls, tasks, rows, llm>>

\* ------------------------------------------------------------ estimateBpm
\* A string is the sequence of its characters.
\* the keywords of the fallback table
Kw_hip == <<"h", "i", "p">>
Kw_rap == <<"r", "a", "p">>
Kw_wiz == <<"w", "i", "z">>
Kw_ballad == <<"b", "a", "l", "l", "a", "d">>
Kw_slow == <<"s", "l", "o", "w">>
Kw_edm == <<"e", "d", "m">>
Kw_dance == <<"d", "a", "n", "c", "e">>
Kw_rock == <<"r", "o", "c", "k">>
Kw_jazz == <<"j", "a", "z", "z">>
Kw_pop == <<"p", "o", "p">>

\* String.prototype.toLowerCase, on the letters the inputs use
Lower(c) ==
  CASE c = "W" -> "w" [] c = "I" -> "i" [] c = "Z" -> "z"
    [] c = "E" -> "e" [] c = "D" -> "d" [] c = "M" -> "m"
    [] c = "P" -> "p" [] c = "H" -> "h" [] c = "S" -> "s"
    [] c = "J" -> "j" [] c = "R" -> "r" [] c = "C" -> "c"
    [] c = "B" -> "b" [] c = "L" -> "l" [] c = "Y" -> "y"
    [] c = "T" -> "t" [] c = "O" -> "o" [] c = "U" -> "u"
    [] OTHER -> c
toLowerCase(s) == [i \in DOMAIN s |-> Lower(s[i])]

\* String.prototype.includes
Includes(s, sub) ==
  \E i \in 0..(Len(s) - Len(sub)) : SubSeq(s, i + 1, i + Len(sub)) = sub

\* Array.prototype.join(" ")
RECURSIVE Join(_)
Join(tags) ==
  IF tags = <<>> THEN <<>>
  ELSE IF Len(tags) = 1 THEN tags[1]
  ELSE tags[1] \o <<" ">> \o Join(Tail(tags))

\* Math.round of a positive number given in tenths
RoundTenths(t) == (t + 5) \div 10

\* the file name hints with the ballad rule tried first
NameHint_balladFirst(name) ==
  IF Includes(name, Kw_ballad) \/ Includes(name, Kw_slow) THEN <<72>>
  ELSE IF Includes(name, Kw_hip) \/ Includes(name, Kw_rap)
          \/ Includes(name, Kw_wiz) THEN <<85>>
  ELSE IF Includes(name, Kw_edm) \/ Includes(name, Kw_dance) THEN <<128>>
  ELSE IF Includes(name, Kw_rock) THEN <<130>>
  ELSE IF Includes(name, Kw_jazz) THEN <<110>>
  ELSE <<>>

\* the file name hints, in the order they are tried: the bpm of the first
\* that matches, or none
NameHint(name) ==
  IF Includes(name, Kw_hip) \/ Includes(name, Kw_rap)
     \/ Includes(name, Kw_wiz) THEN <<85>>
  ELSE IF Includes(name, Kw_ballad) \/ Includes(name, Kw_slow) THEN <<72>>
  ELSE IF Includes(name, Kw_edm) \/ Includes(name, Kw_dance) THEN <<128>>
  ELSE IF Includes(name, Kw_rock) THEN <<130>>
  ELSE IF Includes(name, Kw_jazz) THEN <<110>>
  ELSE <<>>

\* the genre tag hints, in the order they are tried
GenreHint(genre) ==
  IF Includes(genre, Kw_hip) \/ Includes(genre, Kw_rap) THEN <<85>>
  ELSE IF Includes(genre, Kw_ballad) \/ Includes(genre, Kw_slow) THEN <<72>>
  ELSE IF Includes(genre, Kw_pop) THEN <<120>>
  ELSE IF Includes(genre, Kw_rock) THEN <<130>>
  ELSE IF Includes(genre, Kw_edm) \/ Includes(genre, Kw_dance) THEN <<128>>
  ELSE IF Includes(genre, Kw_jazz) THEN <<110>>
  ELSE <<>>

\* common.bpm && common.bpm > 40 && common.bpm < 300; the tag is <<>> when
\* absent and <<t>> for a bpm of t tenths
TaggedBpmValid(bpm) == bpm # <<>> /\ bpm[1] # 0 /\ bpm[1] > 400 /\ bpm[1] < 3000

\* estimateBpm(common, bitrate, fileName); an absent genre is <<>> as is
\* an absent file name (?? [] and ?? "")
estimateBpm(common, bitrate, fileName) ==
  IF TaggedBpmValid(common.bpm) THEN RoundTenths(common.bpm[1])
  ELSE LET genre == toLowerCase(Join(common.genre))
           name == toLowerCase(fileName)
       IN IF NameHint(name) # <<>> THEN NameHint(name)[1]
          ELSE IF GenreHint(genre) # <<>> THEN GenreHint(genre)[1]
          ELSE IF bitrate > 256 THEN 120
          ELSE 90

\* the pieces file names are made of
NameWords ==
  { <<"w", "i", "z">>,
    <<"W", "I", "Z">>,
    <<"h", "i", "p">>,
    <<"r", "a", "p">>,
    <<"b", "a", "l", "l", "a", "d">>,
    <<"s", "l", "o", "w">>,
    <<"e", "d", "m">>,
    <<"d", "a", "n", "c", "e">>,
    <<"r", "o", "c", "k">>,
    <<"j", "a", "z", "z">>,
    <<"s", "o", "n", "g">>,
    <<"w">>,
    <<"_">>,
    <<".", "m", "p", "3">> }

\* the file names: up to MaxNameWords pieces, one after the other
RECURSIVE NamesOf(_)
NamesOf(n) ==
  IF n = 0 THEN {<<>>}
  ELSE LET shorter == NamesOf(n - 1)
       IN UNION {shorter, {s \o w : s \in shorter, w \in NameWords}}

\* common.genre: absent, or the tags of the file
GenreTags ==
  { <<>>,
    <<<<"P", "o", "p">>>>,
    <<<<"H", "i", "p", "-", "H", "o", "p">>>>,
    <<<<"S", "l", "o", "w", " ", "J", "a", "m">>>>,
    <<<<"E", "D", "M">>>>,
    <<<<"J", "a", "z", "z">>, <<"R", "o", "c", "k">>>>,
    <<<<"C", "l", "a", "s", "s", "i", "c", "a", "l">>>> }

\* common.bpm in tenths: absent, 0, the two ends of the accepted interval,
\* and values inside and outside it
TaggedBpms == {<<>>, <<0>>, <<400>>, <<401>>, <<1204>>, <<2996>>, <<3000>>}

\* every file name with no usable bpm tag, without a genre tag and with
\* the tag Pop, and every tag, genre and bitrate with the file names of at
\* most one piece
FileNameInputs ==
  [ common : [bpm : {<<>>, <<400>>}, genre : {<<>>, <<<<"P", "o", "p">>>>}],
    bitrate : {256},
    fileName : NamesOf(MaxNameWords) ]

TagInputs ==
  [ common : [bpm : TaggedBpms, genre : GenreTags],
    bitrate : {256, 257},
    fileName : NamesOf(1) ]

EstimateBpm ==
  /\ fn.name = "estimateBpm" /\ ~fn.done
  /\ fn' = Result(fn, estimateBpm(fn.in.common, fn.in.bitrate, fn.in.fileName))
  /\ UNCHANGED <<router, calls, tasks, rows, llm>>

\* ------------------------------------------------------------- mood tags
Kw_love == <<"l", "o", "v", "e">>
Kw_heart == <<"h", "e", "a", "r", "t">>
Kw_sad == <<"s", "a", "d">>
Kw_cry == <<"c", "r", "y">>
Kw_see_you == <<"s", "e", "e", "_", "y", "o", "u">>
Kw_see_you_spaced == <<"s", "e", "e", " ", "y", "o", "u">>

\* tags.push(...) when the rule fires
Push(fires, tags) == IF fires THEN tags ELSE <<>>

\* Array.from(new Set(tags)): the first occurrence of every tag, in order
ArrayFromSet(tags) ==
  LET first == {i \in 1..Len(tags) : \A j \in 1..(i - 1) : tags[j] # tags[i]}
  IN [k \in 1..Cardinality(first) |->
        tags[CHOOSE i \in first : Cardinality({j \in first : j <= i}) = k]]

\* Array.prototype.slice(0, n)
Slice(s, n) == SubSeq(s, 1, Min(n, Len(s)))

MaxMoodTags == 5
DefaultMoodTags == <<"Expressive", "Dynamic">>

\* the tags with the cut made before the duplicates are removed
MoodTagsOf_sliceFirst(tags) ==
  ArrayFromSet(Slice(IF Len(tags) = 0 THEN DefaultMoodTags ELSE tags,
                     MaxMoodTags))

\* if (tags.length === 0) tags.push("Expressive", "Dynamic");
\* Array.from(new Set(tags)).slice(0, 5)
MoodTagsOf(tags) ==
  Slice(ArrayFromSet(IF Len(tags) = 0 THEN DefaultMoodTags ELSE tags),
        MaxMoodTags)

\* the rules of deriveMoodTags without the rule on see_you in the file name
DerivedTags_noSeeYouRule(common, energy, fileName) ==
  LET genre == toLowerCase(Join(common.genre))
      title == toLowerCase(common.title)
      name == toLowerCase(fileName)
  IN Push(Includes(genre, Kw_ballad) \/ energy = "Low",
          <<"Nostalgic", "Emotional">>)
     \o Push(Includes(genre, Kw_hip) \/ Includes(genre, Kw_rap)
              \/ Includes(name, Kw_wiz), <<"Rhythmic", "Urban">>)
     \o Push(Includes(genre, Kw_pop), <<"Upbeat", "Melodic">>)
     \o Push(Includes(genre, Kw_jazz), <<"Smooth", "Sophisticated">>)
     \o Push(Includes(genre, Kw_rock), <<"Energetic", "Powerful">>)
     \o Push(Includes(title, Kw_love) \/ Includes(title, Kw_heart)
              \/ Includes(name, Kw_love), <<"Romantic">>)
     \o Push(Includes(title, Kw_sad) \/ Includes(title, Kw_cry)
              \/ Includes(name, Kw_sad), <<"Melancholic">>)

\* the tags the rules of deriveMoodTags push, in the order of the rules
DerivedTags(common, energy, fileName) ==
  LET genre == toLowerCase(Join(common.genre))
      title == toLowerCase(common.title)
      name == toLowerCase(fileName)
  IN Push(Includes(genre, Kw_ballad) \/ energy = "Low",
          <<"Nostalgic", "Emotional">>)
     \o Push(Includes(genre, Kw_hip) \/ Includes(genre, Kw_rap)
              \/ Includes(name, Kw_wiz), <<"Rhythmic", "Urban">>)
     \o Push(Includes(genre, Kw_pop), <<"Upbeat", "Melodic">>)
     \o Push(Includes(genre, Kw_jazz), <<"Smooth", "Sophisticated">>)
     \o Push(Includes(genre, Kw_rock), <<"Energetic", "Powerful">>)
     \o Push(Includes(title, Kw_love) \/ Includes(title, Kw_heart)
              \/ Includes(name, Kw_love), <<"Romantic">>)
     \o Push(Includes(title, Kw_sad) \/ Includes(title, Kw_cry)
              \/ Includes(name, Kw_sad), <<"Melancholic">>)
     \o Push(Includes(name, Kw_see_you) \/ Includes(name, Kw_see_you_spaced),
              <<"Nostalgic", "Bittersweet", "Heartfelt">>)

\* deriveMoodTags(common, energy, fileName); an absent title or file name
\* is the empty string
deriveMoodTags(common, energy, fileName) ==
  MoodTagsOf(DerivedTags(common, energy, fileName))

\* the tags the rules of advancedAnalyzeAudio push
AdvancedTags(energyLevel, genre, vocalPresence, drumIntensity) ==
  Push(energyLevel = "Low", <<"Nostalgic", "Emotional">>)
  \o Push(Includes(genre, Kw_hip) \/ Includes(genre, Kw_rap),
           <<"Rhythmic", "Urban">>)
  \o Push(Includes(genre, Kw_ballad), <<"Tender", "Reflective">>)
  \o Push(Greater(vocalPresence, Rat(6, 10)), <<"Vocal-driven">>)
  \o Push(Greater(drumIntensity, Rat(7, 10)), <<"Percussive">>)

\* mood_tags of advancedAnalyzeAudio; genre is the joined, lower-cased tag
advancedMoodTags(energyLevel, genre, vocalPresence, drumIntensity) ==
  MoodTagsOf(AdvancedTags(energyLevel, genre, vocalPresence, drumIntensity))

\* the genre tags a file can carry: any of these, in this order
MoodGenreWords ==
  << <<"B", "a", "l", "l", "a", "d">>, <<"H", "i", "p", "-", "H", "o", "p">>, <<"P", "o", "p">>, <<"J", "a", "z", "z">>, <<"R", "o", "c", "k">>, <<"R", "a", "p">> >>

\* the chosen words of a sequence, in their order
Chosen(words, choice) ==
  LET picked == {i \in 1..Len(words) : choice[i]}
  IN [k \in 1..Cardinality(picked) |->
        words[CHOOSE i \in picked : Cardinality({j \in picked : j <= i}) = k]]

MoodGenres ==
  {Chosen(MoodGenreWords, c) : c \in [1..Len(MoodGenreWords) -> BOOLEAN]}

MoodTitles == { <<>>, <<"L", "o", "v", "e", " ", "S", "t", "o", "r", "y">>, <<"S", "a", "d", " ", "H", "e", "a", "r", "t">>, <<"c", "r", "y">>, <<"T", "u", "n", "e">> }

MoodNames == { <<>>, <<"s", "e", "e", "_", "y", "o", "u", "_", "a", "g", "a", "i", "n", ".", "m", "p", "3">>, <<"S", "e", "e", " ", "Y", "o", "u">>, <<"w", "i", "z", " ", "l", "o", "v", "e">>, <<"s", "a", "d", " ", "s", "o", "n", "g">>, <<"s", "o", "n", "g">> }

\* estimateEnergy returns one of these
EnergyLevels == {"Low", "High", "Medium", "Medium-Low"}

MoodInputs ==
  [ common : [genre : MoodGenres, title : MoodTitles],
    energy : EnergyLevels,
    fileName : MoodNames ]

DeriveMoodTags ==
  /\ fn.name = "deriveMoodTags" /\ ~fn.done
  /\ fn' = Result(fn, deriveMoodTags(fn.in.common, fn.in.energy, fn.in.fileName))
  /\ UNCHANGED <<router, calls, tasks, rows, llm>>

\* rmsEnergy > 0.5 ? "High" : rmsEnergy > 0.3 ? "Medium" : "Low"; a vocal
\* presence between 0.2 and 1; a drum intensity of NaN, 0.5 or 1
AdvancedMoodInputs ==
  [ energyLevel : {"Low", "Medium", "High"},
    genre : {toLowerCase(Join(g)) : g \in MoodGenres},
    vocalPresence : {Rat(2, 10), Rat(6, 10), Rat(1, 1)},
    drumIntensity : {NaN, Rat(5, 10), Rat(1, 1)} ]

AdvancedMoodTags ==
  /\ fn.name = "advancedAnalyzeAudio.moodTags" /\ ~fn.done
  /\ fn' = Result(fn, advancedMoodTags(fn.in.energyLevel, fn.in.genre,
                                       fn.in.vocalPresence, fn.in.drumIntensity))
  /\ UNCHANGED <<router, calls, tasks, rows, llm>>

\* the bpm advancedAnalyzeAudio puts in its feature set:
\* (common.bpm && common.bpm > 40 && common.bpm < 300)
\*   ? Math.round(common.bpm) : 90
advancedBpm(common) ==
  IF TaggedBpmValid(common.bpm) THEN RoundTenths(common.bpm[1]) ELSE 90

AdvancedBpm ==
  /\ fn.name = "advancedAnalyzeAudio.bpm" /\ ~fn.done
  /\ fn' = Result(fn, advancedBpm(fn.in.common))
  /\ UNCHANGED <<router, calls, tasks, rows, llm>>

\* ------------------------------------------------------ the feature set
Kw_wav == <<"w", "a", "v">>

\* new Float32Array(sampleRate * 10): ten seconds of zeros
Placeholder(sampleRate) ==
  [b \in 1..((sampleRate * PlaceholderSeconds) \div BlockSamples) |-> 0]

\* a decodeToPCM that decodes every type
DecodedPCM_everyType(file) ==
  IF file.decodable
    THEN [samples |-> file.content.samples,
          magnitude |-> file.content.magnitude]
    ELSE [samples |-> ZeroPlaceholder, magnitude |-> ZeroSpectrumOn(ProbeBins)]

\* the samples decodeToPCM resolves with, and the spectrum of their first
\* window: channel 0 of a WAV that wav-decoder accepts; zeros at the rate
\* of the metadata for any other type; 441000 zeros after a throw
DecodedPCM(file) ==
  IF Includes(file.mimeType, Kw_wav)
    THEN IF file.decodable
           THEN [samples |-> file.content.samples,
                 magnitude |-> file.content.magnitude]
           ELSE [samples |-> ZeroPlaceholder,
                 magnitude |-> ZeroSpectrumOn(ProbeBins)]
    ELSE [samples |-> Placeholder(file.sampleRate),
          magnitude |-> ZeroSpectrumOn(ProbeBins)]

\* rmsEnergy > 0.5 ? "High" : rmsEnergy > 0.3 ? "Medium" : "Low"
EnergyLevelOf(rmsEnergy) ==
  IF Greater(rmsEnergy, Rat(5, 10)) THEN "High"
  ELSE IF Greater(rmsEnergy, Rat(3, 10)) THEN "Medium"
  ELSE "Low"

\* peakLevel > 0.8 ? "Wide" : peakLevel > 0.5 ? "Moderate" : "Narrow"
DynamicRangeOf(peakLevel) ==
  IF Greater(peakLevel, Rat(8, 10)) THEN "Wide"
  ELSE IF Greater(peakLevel, Rat(5, 10)) THEN "Moderate"
  ELSE "Narrow"

\* the feature set returned: the numeric features, the levels read off
\* them and the mood tags; genre is the joined, lower-cased genre tag
FeatureSetOf(features, genre) ==
  [ energy_level |-> EnergyLevelOf(features.rms_energy),
    dynamic_range |-> DynamicRangeOf(features.peak_level),
    mood_tags |-> advancedMoodTags(EnergyLevelOf(features.rms_energy), genre,
                                   features.vocal_presence,
                                   features.drum_intensity) ] @@ features

\* the features of the samples decodeToPCM gives
FeaturesOfPCM(pcm, sampleRate, bpm) ==
  AdvancedFeatures(pcm.samples, sampleRate, bpm, pcm.magnitude)

\* advancedAnalyzeAudio: sampleRate, bpm and genre come from the metadata,
\* the samples from decodeToPCM
advancedAnalyzeAudio(file) ==
  FeatureSetOf(FeaturesOfPCM(DecodedPCM(file), file.sampleRate,
                             advancedBpm(file.common)),
               toLowerCase(Join(file.common.genre)))

\* the types of the uploads: three without "wav" (includes is case
\* sensitive) and two with it
MimeTypes ==
  { <<"a", "u", "d", "i", "o", "/", "m", "p", "e", "g">>,
    <<"a", "u", "d", "i", "o", "/", "m", "p", "4">>,
    <<"a", "u", "d", "i", "o", "/", "W", "A", "V">>,
    <<"a", "u", "d", "i", "o", "/", "w", "a", "v">>,
    <<"a", "u", "d", "i", "o", "/", "x", "-", "w", "a", "v">> }

\* what the audio of a file holds: nothing, a loud signal, an uneven one
\* and one that starts silent, each with a spectrum its first window can
\* have
Contents ==
  {c \in [ samples : {<<>>, <<2, 2, 2>>, <<1, 2, 0>>, <<0, 0, 1>>},
           magnitude : {ZeroSpectrumOn(ProbeBins),
                        [i \in ProbeBins |-> IF i = 12 THEN 1 ELSE 0]} ] :
     WindowSpectrum(c.samples, c.magnitude)}

\* the uploads: type, content, whether wav-decoder accepts it, and the
\* metadata music-metadata reads (sample rate, bpm tag in tenths, genre)
UploadedFiles ==
  [ mimeType : MimeTypes,
    content : Contents,
    decodable : BOOLEAN,
    sampleRate : {FallbackSampleRate \div 2, FallbackSampleRate},
    common : [ bpm : {<<>>, <<1204>>},
               genre : {<<>>, <<<<"B", "a", "l", "l", "a", "d">>>>,
                        <<<<"H", "i", "p", "-", "H", "o", "p">>>>} ] ]

AdvancedAnalyzeAudio ==
  /\ fn.name = "advancedAnalyzeAudio.file" /\ ~fn.done
  /\ fn' = Result(fn, advancedAnalyzeAudio(fn.in))
  /\ UNCHANGED <<router, calls, tasks, rows, llm>>

\* ------------------------------------------------- the request, checked
\* a request with the length of the buffer its fileBase64 decodes to:
\* Buffer.from(fileBase64, "base64") is made in the task, after the checks
Upload(n, sz, a, bytes) ==
  [nameLen |-> n, size |-> sz, audio |-> a, bytes |-> bytes]

\* names of 0, 255 and 256 characters; declared sizes of -1, 0, 16 MiB,
\* one byte more and 17 MiB; contents of every kind, decoding to nothing,
\* to 16 MiB or to 17 MiB
UploadInputs ==
  { Upload(n, sz, a, bytes) :
      n \in {0, MaxFileNameLen, MaxFileNameLen + 1},
      sz \in {-1, 0, MaxFileSizeBytes, MaxFileSizeBytes + 1, SeventeenMiB},
      a \in { Audio("audio/wav", "wav"), Audio("audio/wav", "wav-adpcm"),
              Audio("audio/mpeg", "mp3"), Audio("audio/wav", "corrupt") },
      bytes \in {0, MaxFileSizeBytes, SeventeenMiB} }

\* the checks startAnalysis makes on a request before it creates the row
ValidateUpload ==
  /\ fn.name = "startAnalysis.input" /\ ~fn.done
  /\ fn' = Result(fn, Validate(fn.in))
  /\ UNCHANGED <<router, calls, tasks, rows, llm>>

\* ------------------------------------------------- the functions, called
UnitCalls(name, inputs) == \E i \in inputs : fn = Call(name, i)

\* no request is being served while a function is exercised
UnitInit ==
  /\ router = RouterSelectedLLM
  /\ calls = EmptyBag
  /\ tasks = <<>>
  /\ rows = <<>>
  /\ llm = NoSettings
  /\ \/ UnitCalls("detectGenre", GenreInputs)
     \/ UnitCalls("analyzeSpectrum", SpectrumInputs)
     \/ UnitCalls("advancedAnalyzeAudio", FeatureInputs)
     \/ UnitCalls("estimateBpm", FileNameInputs)
     \/ UnitCalls("estimateBpm", TagInputs)
     \/ UnitCalls("advancedAnalyzeAudio.bpm", TagInputs)
     \/ UnitCalls("deriveMoodTags", MoodInputs)
     \/ UnitCalls("advancedAnalyzeAudio.moodTags", AdvancedMoodInputs)
     \/ UnitCalls("startAnalysis.input", UploadInputs)
     \/ UnitCalls("analyzeRhythm", RhythmInputs)
     \/ UnitCalls("advancedAnalyzeAudio.file", UploadedFiles)

UnitNext ==
  \/ DetectGenre
  \/ AnalyzeSpectrum
  \/ ExtractFeatures
  \/ EstimateBpm
  \/ AdvancedBpm
  \/ DeriveMoodTags
  \/ AdvancedMoodTags
  \/ ValidateUpload
  \/ AnalyzeRhythm
  \/ AdvancedAnalyzeAudio

UnitSpec == UnitInit /\ [][UnitNext]_vars

\* ================================================================ claims
Ids == 1..Len(tasks)
Terminal == {"done", "error"}
IsPrefix(a, b) == Len(a) <= Len(b) /\ SubSeq(b, 1, Len(a)) = a

\* C1: a row's status changes only along pending->analyzing,
\* analyzing->done and analyzing->error, and a row whose status is done or
\* error is never written again; no row is ever removed.
C1_StatusEdges ==
  [][ /\ Len(rows') >= Len(rows)
      /\ \A id \in 1..Len(rows) :
           /\ rows'[id].status # rows[id].status =>
                <<rows[id].status, rows'[id].status>> \in
                  { <<"pending", "analyzing">>, <<"analyzing", "done">>,
                    <<"analyzing", "error">> }
           /\ rows[id].status \in Terminal => rows'[id] = rows[id] ]_vars

\* a row is terminal while the task of another job is still to write
C1_Witness ==
  \E id \in Ids, other \in Ids :
    /\ rows[id].status \in Terminal
    /\ tasks[other].pc \in {"updateRef", "finalWrite", "errorWrite"}

\* C2: the step in which createMusicAnalysis completes is the step in which
\* startAnalysis returns {analysisId}: no background stage has completed,
\* the row's status is pending or analyzing, and no later step of the task,
\* failing or not, changes what the call returned.
C2_ReturnsBeforeBackground ==
  [][ /\ Len(rows') > Len(rows) =>
           /\ Len(tasks') = Len(rows')
           /\ tasks'[Len(rows')].result = "analysisId"
           /\ tasks'[Len(rows')].log = <<>>
           /\ tasks'[Len(rows')].statusAtReturn = rows'[Len(rows')].status
           /\ rows'[Len(rows')].status \in {"pending", "analyzing"}
      /\ \A id \in Ids : tasks'[id].result = tasks[id].result
                         /\ tasks'[id].result = "analysisId" ]_vars

\* the call has returned its id and the background task has failed
C2_Witness ==
  \E id \in Ids :
    /\ tasks[id].result = "analysisId"
    /\ tasks[id].statusAtReturn = "analyzing"
    /\ tasks[id].failed # "none"
    /\ rows[id].status = "error"

\* C3: a call with fileSizeBytes above 16 MiB ends rejected with an error
\* and never gets a row or a task (createMusicAnalysis, storagePut and
\* updateMusicAnalysis are not called for it); a call with exactly 16 MiB
\* (and a file name within the limit) is not rejected.
C3_SizeLimit ==
  /\ Len(rows) = Len(tasks)
  /\ \A id \in Ids : tasks[id].size <= MaxFileSizeBytes
  /\ \A c \in BagToSet(calls) :
       /\ c.size > MaxFileSizeBytes =>
            c.pc = "rejected" /\ c.result \notin {"none", "analysisId"}
       /\ (c.size = MaxFileSizeBytes /\ c.nameLen <= MaxFileNameLen) =>
            c.pc # "rejected"

\* a 17 MiB call was rejected and a call of exactly 16 MiB has its row
C3_Witness ==
  /\ \E c \in BagToSet(calls) : c.size = SeventeenMiB /\ c.pc = "rejected"
  /\ \E id \in Ids : tasks[id].size = MaxFileSizeBytes
  /\ Len(rows) = 1

\* C4: a row whose status is done holds a generatedPrompts object with
\* exactly the five keys universal, suno, udio, musicgen and beatoven.
C4_DoneHasFiveKeys ==
  \A id \in 1..Len(rows) :
    rows[id].status = "done" =>
      rows[id].generatedPrompts = JsonObject(PromptKeys)

\* C5: a row whose status is error holds a non-empty errorMessage, the
\* stringified cause of the failure.
C5_ErrorHasMessage ==
  \A id \in Ids :
    rows[id].status = "error" =>
      /\ rows[id].errorMessage = ErrorMessage(tasks[id].err)
      /\ rows[id].errorMessage \notin {"", "NULL"}

\* C6: once the task of a job in which a stage threw is over, the row's
\* status is error with that failure's message; a row is done only when no
\* stage of its task threw.
C6_StageFailureIsError ==
  \A id \in Ids :
    /\ (tasks[id].failed # "none" /\ tasks[id].pc \in {"finished", "crashed"}) =>
         /\ rows[id].status = "error"
         /\ rows[id].errorMessage = ErrorMessage(tasks[id].err)
    /\ rows[id].status = "done" => tasks[id].failed = "none"

\* C7: a background task that has no step left has brought its row to
\* status done or error, whichever calls threw.
C7_TaskEndsTerminal ==
  \A id \in Ids : ~ENABLED Step(id) => rows[id].status \in Terminal

\* the stages in the order the task of a revision runs them
StageOrder(rt) ==
  IF rt = RouterSelectedLLM
    THEN <<"storagePut", "updateRef", "parseBuffer", "decodeToPCM",
           "extract", "classify", "generate", "finalWrite">>
    ELSE <<"storagePut", "updateRef", "parseBuffer",
           "extract", "classify", "generate", "finalWrite">>

\* the stage a task is in while it waits at pc
StageAt(pc) ==
  CASE pc = "decoded" -> "extract"
    [] pc \in {"llm", "parsePrompts"} -> "generate"
    [] OTHER -> pc

\* C8: the stages of one task complete in the order upload, reference
\* write, analysis (decode, extraction, classification), prompt generation,
\* final write; the stage in progress is the successor of the last
\* completed one; a done row has all stages completed, the final write last.
C8_StagesInOrder ==
  \A id \in Ids :
    LET l == tasks[id].log
        run == IF l # <<>> /\ l[Len(l)] = "errorWrite"
                 THEN SubSeq(l, 1, Len(l) - 1) ELSE l
    IN /\ IsPrefix(run, StageOrder(router))
       /\ tasks[id].pc \notin {"finished", "crashed", "errorWrite"} =>
            StageAt(tasks[id].pc) = StageOrder(router)[Len(l) + 1]
       /\ rows[id].status = "done" =>
            l = StageOrder(router) /\ tasks[id].pc = "finished"
       /\ rows[id].audioUrl # 0 => Len(run) >= 2

\* a task has run all its stages and its row is done
C8_Witness ==
  \E id \in Ids :
    rows[id].status = "done" /\ tasks[id].log = StageOrder(router)

\* C9: in the revision that decodes the audio (advancedAnalyzeAudio), a
\* corrupt buffer never makes the analysis stage throw: the decode step
\* yields 441000 zero samples at 44100 Hz with 2 channels for it and the
\* task goes on.
C9_CorruptAudioDegrades ==
  router = RouterSelectedLLM =>
    \A id \in Ids :
      /\ tasks[id].failed # "parseBuffer"
      /\ (tasks[id].pc = "decoded" /\ tasks[id].audio.buffer = "corrupt") =>
           tasks[id].samples = Samples("zeros", 441000, 44100, 2)

\* a valid five-key object in a json fence or in a bare fence
FencedFiveKey ==
  { <<Fence, WordJson, Ws, TokObj5, Ws, Fence>>,
    <<Fence, Ws, TokObj5, Ws, Fence>> }

\* C10: the task that parses a fenced five-key reply goes on to the final
\* write with the prompts of the unwrapped reply; the task that parses a
\* reply that is no JSON once the fence is stripped goes to the error
\* write, and the row of such a task becomes error.
C10_FenceStripped ==
  [][ \A id \in Ids :
        /\ (tasks[id].pc = "parsePrompts" /\ tasks'[id].pc # "parsePrompts") =>
             /\ tasks[id].reply \in FencedFiveKey =>
                  /\ tasks'[id].pc = "finalWrite"
                  /\ tasks'[id].prompts = JSONParse(<<TokObj5>>).value
             /\ ~JSONParse(StripCodeFence(tasks[id].reply)).ok =>
                  tasks'[id].pc = "errorWrite"
        /\ (tasks[id].failed = "parsePrompts" /\ tasks[id].pc = "errorWrite"
              /\ tasks'[id].pc # "errorWrite") =>
             rows'[id].status = "error" ]_vars
\* C11 (as stated): the row a call creates has status pending.
C11_CreatedPending ==
  [][ Len(rows') > Len(rows) => rows'[Len(rows')].status = "pending" ]_vars

\* C11 (amended): the row a call creates has its file name, status
\* analyzing and every other column at its default; no row ever has status
\* pending, so analyzing is what a poller sees before the task has done
\* any work.
C11_CreatedAnalyzing ==
  [][ /\ Len(rows') > Len(rows) =>
           rows'[Len(rows')] =
             [DefaultRow EXCEPT !.fileName = tasks'[Len(rows')].nameLen,
                                !.status = "analyzing"]
      /\ \A id \in 1..Len(rows') : rows'[id].status # "pending" ]_vars

\* a row exists whose task has not completed any stage
C11_Witness ==
  \E id \in Ids :
    /\ tasks[id].pc = "storagePut" /\ tasks[id].log = <<>>
    /\ rows[id].status = "analyzing" /\ rows[id].audioUrl = 0

\* C12: audioUrl and audioKey are set exactly from the completion of the
\* reference write, which follows the upload and precedes the analysis;
\* once set they never change, whatever the later writes; a done row has
\* them set.
C12_StorageRefKept ==
  [][ \A id \in 1..Len(rows') :
        LET l == tasks'[id].log
            written == Len(l) >= 2 /\ l[1] = "storagePut" /\ l[2] = "updateRef"
        IN /\ rows'[id].audioUrl = (IF written THEN id ELSE 0)
           /\ rows'[id].audioKey = rows'[id].audioUrl
           /\ tasks'[id].pc \in {"parseBuffer", "decodeToPCM", "decoded",
                                 "llm", "parsePrompts", "finalWrite"} => written
           /\ rows'[id].status = "done" => written
           /\ (id <= Len(rows) /\ rows[id].audioUrl # 0) =>
                /\ rows'[id].audioUrl = rows[id].audioUrl
                /\ rows'[id].audioKey = rows[id].audioKey ]_vars

\* a job failed after its storage reference was written and is error
C12_Witness ==
  \E id \in Ids :
    /\ rows[id].status = "error" /\ rows[id].audioUrl = id
    /\ tasks[id].failed \in {"parseBuffer", "llm", "parsePrompts", "finalWrite"}

\* C13: the step that creates a row creates exactly one, for exactly one
\* call, and starts exactly one task, the one of the new id; the tasks and
\* the rows are as many, calls of identical content included, and no task
\* runs a stage twice.
C13_OneRunPerJob ==
  [][ /\ Len(tasks') = Len(rows')
      /\ Len(rows') \in {Len(rows), Len(rows) + 1}
      /\ Len(rows') > Len(rows) =>
           /\ BagCardinality(calls') = BagCardinality(calls) - 1
           /\ SubSeq(tasks', 1, Len(tasks)) = tasks
           /\ tasks'[Len(rows')].pc = "storagePut"
      /\ \A id \in 1..Len(tasks') :
           \A i, j \in 1..Len(tasks'[id].log) :
             tasks'[id].log[i] = tasks'[id].log[j] => i = j ]_vars

\* two calls of identical content have two jobs, each with its own task
C13_Witness ==
  /\ Len(rows) = 2
  /\ rows[1].fileName = rows[2].fileName
  /\ tasks[1] = tasks[2]
  /\ tasks[1].pc = "storagePut"
\* C14: a step changes the row of at most one job, and only a step of the
\* task started for that job changes it; a step of getAnalysis or of
\* listAnalyses changes no row, no task and no call.
C14_SingleWriter ==
  [][ /\ \A id \in 1..Len(rows) :
           rows'[id] # rows[id] =>
             /\ tasks'[id] # tasks[id]
             /\ tasks[id].pc \in {"updateRef", "finalWrite", "errorWrite"}
             /\ fn'.name = "none"
             /\ \A other \in 1..Len(rows) \ {id} :
                  rows'[other] = rows[other] /\ tasks'[other] = tasks[other]
      /\ fn'.name \in {"getAnalysis", "listAnalyses"} =>
           rows' = rows /\ tasks' = tasks /\ calls' = calls ]_vars

\* listAnalyses has answered with the one done row while the task of the
\* other job is about to write, and getAnalysis has answered for a job
\* whose neighbour is being written
C14_Witness ==
  /\ Len(rows) = 2
  /\ fn.name = "listAnalyses" /\ fn.ok
  /\ listMusicAnalyses(rows, ListLimit) = <<Selected(rows, 1)>>
  /\ rows[1].status = "done"
  /\ tasks[2].pc \in {"updateRef", "finalWrite", "errorWrite"}
\* the scores of the profiles on the input of the call in fn
ScoreOf(i) ==
  GenreScore(GENRE_PROFILES[i], fn.in.bpm, fn.in.rmsEnergy,
             fn.in.spectralCentroid)
MaxScore ==
  CHOOSE s \in {ScoreOf(i) : i \in DOMAIN GENRE_PROFILES} :
    \A i \in DOMAIN GENRE_PROFILES : ScoreOf(i) <= s
FirstOfMaxScore ==
  CHOOSE i \in DOMAIN GENRE_PROFILES :
    /\ ScoreOf(i) = MaxScore
    /\ \A j \in 1..(i - 1) : ScoreOf(j) < MaxScore

\* C18: detectGenre returns the first declared profile among those of
\* maximum score (30 for the bpm, 30 for the energy, 40 for the centroid,
\* ranges inclusive), also when every profile scores 0, with
\* genreConfidence the score divided by 100.
C18_FirstOfMaxScore ==
  (fn.name = "detectGenre" /\ fn.done) =>
    /\ fn.out.detectedGenre = GENRE_PROFILES[FirstOfMaxScore].name
    /\ RatEq(fn.out.genreConfidence, Rat(MaxScore, 100))

\* the input bpm 125, rms 0.75, centroid 3000 Hz
ScenarioInput == [bpm |-> 125, rmsEnergy |-> 75, spectralCentroid |-> 3000]

\* C19 (as stated): on bpm 125, rms 0.75, centroid 3000 detectGenre
\* selects EDM with score 100, a score strictly higher than that of Rock
\* and that of Pop.
C19_EdmStrictlyHighest ==
  (fn.name = "detectGenre" /\ fn.done /\ fn.in = ScenarioInput) =>
    /\ fn.out.detectedGenre = "EDM"
    /\ RatEq(fn.out.genreConfidence, Rat(100, 100))
    /\ ScoreOf(2) > ScoreOf(3)
    /\ ScoreOf(2) > ScoreOf(7)

\* C19 (amended): on that input detectGenre selects EDM with score 100;
\* the score of Pop is 70, strictly lower; the score of Rock is 100 as
\* well, and EDM is selected because it is declared before Rock and no
\* profile declared before EDM scores 100.
C19_EdmSelectedFirst ==
  (fn.name = "detectGenre" /\ fn.done /\ fn.in = ScenarioInput) =>
    /\ fn.out.detectedGenre = "EDM"
    /\ RatEq(fn.out.genreConfidence, Rat(100, 100))
    /\ GENRE_PROFILES[2].name = "EDM" /\ ScoreOf(2) = 100
    /\ GENRE_PROFILES[3].name = "Rock" /\ ScoreOf(3) = 100
    /\ GENRE_PROFILES[7].name = "Pop" /\ ScoreOf(7) = 70
    /\ ScoreOf(1) < 100

\* detectGenre has answered the scenario's input
C19_Witness ==
  fn.name = "detectGenre" /\ fn.done /\ fn.in = ScenarioInput
\* a call of estimateBpm that has answered from the fallback table
FromFallbackTable ==
  fn.name = "estimateBpm" /\ fn.done /\ ~TaggedBpmValid(fn.in.common.bpm)

\* C20 (as stated): with the bpm from the fallback table, a file name
\* containing "wiz" gives 85, one containing "ballad" or "slow" gives 72
\* and one containing "edm" or "dance" gives 128, whatever else it
\* contains.
C20_KeywordGivesBpm ==
  FromFallbackTable =>
    LET name == fn.in.fileName
    IN /\ Includes(name, Kw_wiz) => fn.out = 85
       /\ (Includes(name, Kw_ballad) \/ Includes(name, Kw_slow)) => fn.out = 72
       /\ (Includes(name, Kw_edm) \/ Includes(name, Kw_dance)) => fn.out = 128

\* C20 (amended): with the bpm from the fallback table, for every genre
\* tag and bitrate, the keywords are looked for in the lower-cased file
\* name in a fixed order and the first found decides: "hip", "rap" or
\* "wiz" gives 85; otherwise "ballad" or "slow" gives 72; otherwise "edm"
\* or "dance" gives 128.
C20_FirstKeywordGivesBpm ==
  FromFallbackTable =>
    LET name == toLowerCase(fn.in.fileName)
        first == Includes(name, Kw_hip) \/ Includes(name, Kw_rap)
                 \/ Includes(name, Kw_wiz)
        second == Includes(name, Kw_ballad) \/ Includes(name, Kw_slow)
        third == Includes(name, Kw_edm) \/ Includes(name, Kw_dance)
    IN /\ first => fn.out = 85
       /\ (~first /\ second) => fn.out = 72
       /\ (~first /\ ~second /\ third) => fn.out = 128

\* the bpm of a file name with "slow" and "wiz" in it came from the table,
\* under a genre tag that has a hint of its own
C20_Witness ==
  /\ FromFallbackTable
  /\ Includes(fn.in.fileName, Kw_slow) /\ Includes(fn.in.fileName, Kw_wiz)
  /\ GenreHint(toLowerCase(Join(fn.in.common.genre))) = <<120>>
  /\ fn.out = 85
\* analyzeSpectrum has answered
SpectrumDone == fn.name = "analyzeSpectrum" /\ fn.done
\* the spectrum of an empty or all-zero window
ZeroSpectrum == \A i \in DOMAIN fn.in.magnitude : fn.in.magnitude[i] = 0

\* C15: for every window and sample rate, the all-zero window included,
\* the bass, mid and treble ratios each lie in [0,1] and sum to 1.
C15_RatiosSumToOne ==
  SpectrumDone =>
    /\ InUnitInterval(fn.out.bass)
    /\ InUnitInterval(fn.out.mid)
    /\ InUnitInterval(fn.out.treble)
    /\ RatEq(RatAdd(fn.out.bass, RatAdd(fn.out.mid, fn.out.treble)), Rat(1, 1))

\* C17: on an empty or all-zero window analyzeSpectrum returns centroid
\* 2000, spread 1000, bass 0.3, mid 0.5 and treble 0.2.
C17_ZeroSignalFallback ==
  (SpectrumDone /\ ZeroSpectrum) =>
    /\ fn.out.centroid = 2000
    /\ RatEq(fn.out.spread, Rat(1000, 1))
    /\ RatEq(fn.out.bass, Rat(3, 10))
    /\ RatEq(fn.out.mid, Rat(5, 10))
    /\ RatEq(fn.out.treble, Rat(2, 10))
\* advancedAnalyzeAudio has computed the features of a signal
FeaturesDone == fn.name = "advancedAnalyzeAudio" /\ fn.done

\* C16: in every FeatureSet rms_energy, peak_level, rhythm_regularity,
\* drum_intensity and vocal_presence are defined numbers in [0,1], also
\* for an all-zero signal and for a signal shorter than one beat frame.
C16_FeaturesInUnitInterval ==
  FeaturesDone =>
    /\ InUnitInterval(fn.out.rms_energy)
    /\ InUnitInterval(fn.out.peak_level)
    /\ InUnitInterval(fn.out.rhythm_regularity)
    /\ InUnitInterval(fn.out.drum_intensity)
    /\ InUnitInterval(fn.out.vocal_presence)
\* the bpm of a feature set has been computed, by either analysis
BpmDone == fn.name \in {"estimateBpm", "advancedAnalyzeAudio.bpm"} /\ fn.done

\* C21: the bpm of the feature set is the rounded tagged bpm when it lies
\* strictly between 40 and 300; otherwise the value of the first matching
\* file name or genre keyword; otherwise 120 for a bitrate above 256 and
\* 90 if not.
C21_BpmRule ==
  BpmDone =>
    LET tagged == fn.in.common.bpm
        name == NameHint(toLowerCase(fn.in.fileName))
        genre == GenreHint(toLowerCase(Join(fn.in.common.genre)))
    IN IF TaggedBpmValid(tagged) THEN fn.out = RoundTenths(tagged[1])
       ELSE IF name # <<>> THEN fn.out = name[1]
       ELSE IF genre # <<>> THEN fn.out = genre[1]
       ELSE fn.out = (IF fn.in.bitrate > 256 THEN 120 ELSE 90)
\* mood tags have been computed, by either analysis
MoodDone ==
  fn.name \in {"deriveMoodTags", "advancedAnalyzeAudio.moodTags"} /\ fn.done

\* the tags the rules appended for the input of the call, in their order
Appended ==
  IF fn.name = "deriveMoodTags"
    THEN DerivedTags(fn.in.common, fn.in.energy, fn.in.fileName)
    ELSE AdvancedTags(fn.in.energyLevel, fn.in.genre, fn.in.vocalPresence,
                      fn.in.drumIntensity)

\* the number of different tags among the first n of a sequence
DistinctIn(tags, n) == Cardinality({tags[i] : i \in 1..n})

\* C22: mood_tags is non-empty, has at most 5 tags and no tag twice, is
\* the first 5 distinct tags in the order the rules appended them, and is
\* <<"Expressive", "Dynamic">> exactly when no rule fired.
C22_MoodTags ==
  MoodDone =>
    LET out == fn.out
        all == IF Appended = <<>> THEN DefaultMoodTags ELSE Appended
    IN /\ Len(out) >= 1 /\ Len(out) <= 5
       /\ \A i, j \in 1..Len(out) : i # j => out[i] # out[j]
       /\ Len(out) = Min(5, DistinctIn(all, Len(all)))
       /\ \A k \in 1..Len(out) :
            \E i \in 1..Len(all) :
              /\ all[i] = out[k]
              /\ \A j \in 1..(i - 1) : all[j] # all[i]
              /\ DistinctIn(all, i - 1) = k - 1
       /\ (out = DefaultMoodTags) <=> (Appended = <<>>)

\* more than five different tags were appended, one of them twice, and
\* five were returned
C22_Witness ==
  /\ MoodDone
  /\ DistinctIn(Appended, Len(Appended)) > 5
  /\ DistinctIn(Appended, Len(Appended)) < Len(Appended)
  /\ \E i \in 1..5 : \E j \in 1..(i - 1) : Appended[j] = Appended[i]
  /\ Len(fn.out) = 5
\* no rule fired and the default tags were returned
C22_WitnessDefault ==
  MoodDone /\ Appended = <<>> /\ fn.out = DefaultMoodTags
\* deriveMoodTags has answered for a file name with see_you or see you in it
SeeYouDone ==
  /\ fn.name = "deriveMoodTags" /\ fn.done
  /\ \/ Includes(fn.in.fileName, Kw_see_you)
     \/ Includes(fn.in.fileName, Kw_see_you_spaced)

\* mood_tags holds Nostalgic, Bittersweet or Heartfelt
HasSeeYouTag ==
  \E k \in 1..Len(fn.out) : fn.out[k] \in {"Nostalgic", "Bittersweet", "Heartfelt"}

\* the number of tags that the rules on genre, title and file name append
\* ahead of the see_you rule when the Nostalgic rule did not fire
TagsAhead ==
  LET genre == toLowerCase(Join(fn.in.common.genre))
      title == toLowerCase(fn.in.common.title)
      name == toLowerCase(fn.in.fileName)
      n(fires, tags) == IF fires THEN tags ELSE 0
  IN n(Includes(genre, Kw_hip) \/ Includes(genre, Kw_rap)
       \/ Includes(name, Kw_wiz), 2)
     + n(Includes(genre, Kw_pop), 2)
     + n(Includes(genre, Kw_jazz), 2)
     + n(Includes(genre, Kw_rock), 2)
     + n(Includes(title, Kw_love) \/ Includes(title, Kw_heart)
         \/ Includes(name, Kw_love), 1)
     + n(Includes(title, Kw_sad) \/ Includes(title, Kw_cry)
         \/ Includes(name, Kw_sad), 1)

\* C23 (as stated): for a file name containing see_you or see you,
\* whatever the genre tags, the title and the energy level, mood_tags
\* holds at least one of Nostalgic, Bittersweet and Heartfelt.
C23_SeeYouAlwaysTagged == SeeYouDone => HasSeeYouTag

\* C23 (amended): for a file name containing see_you or see you,
\* mood_tags of deriveMoodTags holds at least one of Nostalgic,
\* Bittersweet and Heartfelt exactly when the genre contains ballad, or
\* the energy level is Low, or the rules ahead appended at most four tags.
C23_SeeYouTaggedWithinFive ==
  SeeYouDone =>
    (HasSeeYouTag <=>
       \/ Includes(toLowerCase(Join(fn.in.common.genre)), Kw_ballad)
       \/ fn.in.energy = "Low"
       \/ TagsAhead <= 4)

\* four tags were appended ahead and Nostalgic is the fifth and last tag
C23_Witness ==
  /\ SeeYouDone /\ TagsAhead = 4 /\ fn.in.energy # "Low"
  /\ Len(fn.out) = 5 /\ fn.out[5] = "Nostalgic"
\* listAnalyses has returned a list
ListDone == fn.name = "listAnalyses" /\ fn.done /\ fn.out.ok
\* the ids of the done jobs of the table
DoneIds == {i \in DOMAIN rows : rows[i].status = "done"}

\* C24: listAnalyses returns only jobs whose status is done, at most 20 of
\* them, each a job of the table as persisted, in the order of creation.
C24_ListOnlyDone ==
  ListDone =>
    LET out == fn.out.value
    IN /\ Len(out) <= 20
       /\ \A k \in DOMAIN out :
            /\ out[k].status = "done"
            /\ out[k].id \in DOMAIN rows
            /\ out[k] = Selected(rows, out[k].id)
       /\ \A k \in 1..(Len(out) - 1) : out[k].id < out[k + 1].id
\* 20 jobs are listed from a table of more than 20 done jobs that also
\* holds, among the first jobs, one still analyzing and one that failed
C24_Witness ==
  /\ ListDone
  /\ Len(fn.out.value) = 20
  /\ Cardinality(DoneIds) > 20
  /\ \E a, b \in 1..fn.out.value[20].id :
       rows[a].status = "analyzing" /\ rows[b].status = "error"

\* C25: when more than 20 jobs are done, the 20 jobs listed are the 20
\* most recently created done jobs.
C25_MostRecent ==
  (ListDone /\ Cardinality(DoneIds) > 20) =>
    LET listed == {fn.out.value[k].id : k \in DOMAIN fn.out.value}
    IN /\ Cardinality(listed) = 20
       /\ \A i \in listed : \A j \in DoneIds \ listed : j < i

\* getAnalysis has answered
GetDone == fn.name = "getAnalysis" /\ fn.done

C26_WitnessFound ==
  /\ GetDone
  /\ fn.in \in DOMAIN rows
  /\ fn.out = Returned(Selected(rows, fn.in))
  /\ rows[fn.in].status = "analyzing"
\* the checks of startAnalysis have been made on a request
UploadChecked == fn.name = "startAnalysis.input" /\ fn.done
\* the request is accepted: the checks pass and the row is created next
Accepted(outcome) == outcome = "ok"

\* C27: a request is accepted exactly when its declared size is at most
\* 16 MiB and its file name at most 255 characters long; a request that
\* differs from it only in fileBase64 (the content and the length it
\* decodes to) is accepted or rejected alike.
C27_DeclaredSizeOnly ==
  UploadChecked =>
    /\ Accepted(fn.out) <=>
         (fn.in.size <= 16 * 1024 * 1024 /\ fn.in.nameLen <= 255)
    /\ \A other \in UploadInputs :
         (other.nameLen = fn.in.nameLen /\ other.size = fn.in.size) =>
           (Accepted(Validate(other)) <=> Accepted(fn.out))
\* a request that declares 16 MiB and decodes to 17 MiB has been accepted
C27_Witness ==
  /\ UploadChecked
  /\ Accepted(fn.out)
  /\ fn.in.size = 16 * 1024 * 1024
  /\ fn.in.bytes > 16 * 1024 * 1024
\* analyzeRhythm has run, in the feature extraction or in the comprehensive
\* analysis
RhythmDone == fn.name \in {"advancedAnalyzeAudio", "analyzeRhythm"} /\ fn.done
\* the drum intensity and the label it returned
IntensityOut ==
  IF fn.name = "analyzeRhythm" THEN fn.out.percussionIntensity
  ELSE fn.out.drum_intensity
LabelOut ==
  IF fn.name = "analyzeRhythm" THEN fn.out.drumCharacteristics
  ELSE fn.out.percussion_characteristics
\* the signal has a whole beat frame and the mean frame energy is positive
PositiveFrames ==
  LET e == BeatEnergies(fn.in.samples, fn.in.sampleRate, fn.in.bpm)
  IN Len(e) >= 1 /\ \E i \in DOMAIN e : e[i].num > 0

\* C28: on a signal with at least one whole beat frame and a positive mean
\* frame energy analyzeRhythm returns the drum intensity 1 and the label
\* punchy; on no input does it return the label crisp or muffled.
C28_PunchyOrModerate ==
  RhythmDone =>
    /\ PositiveFrames => (IntensityOut = Rat(1, 1) /\ LabelOut = "punchy")
    /\ LabelOut \notin {"crisp", "muffled"}
\* the part that holds of both: intensity 1 and punchy on positive frames
C28_PunchyOnPositiveFrames ==
  (RhythmDone /\ PositiveFrames) =>
    (IntensityOut = Rat(1, 1) /\ LabelOut = "punchy")
\* the label muffled is returned by the comprehensive analysis only
C28_MuffledOnlyComprehensive ==
  (RhythmDone /\ LabelOut \in {"crisp", "muffled"}) =>
    (fn.name = "analyzeRhythm" /\ LabelOut = "muffled" /\ ~PositiveFrames)
\* advancedAnalyzeAudio has returned the feature set of a file whose type
\* does not contain "wav"
NonWav(file) == ~Includes(file.mimeType, Kw_wav)
NonWavDone == fn.name = "advancedAnalyzeAudio.file" /\ fn.done /\ NonWav(fn.in)

\* C29: for an upload whose mimeType does not contain "wav" the features
\* do not depend on the audio: rms_energy 0, peak_level 0, energy_level
\* Low, dynamic_range Narrow, spectral_centroid_hz 2000, mood_tags starting
\* with Nostalgic, Emotional; and every non-WAV upload with the same
\* metadata gets the same feature set.
C29_NonWavFeatures ==
  NonWavDone =>
    /\ fn.out.rms_energy = Rat(0, 1)
    /\ fn.out.peak_level = Rat(0, 1)
    /\ fn.out.energy_level = "Low"
    /\ fn.out.dynamic_range = "Narrow"
    /\ fn.out.spectral_centroid_hz = 2000
    /\ SubSeq(fn.out.mood_tags, 1, 2) = <<"Nostalgic", "Emotional">>
    /\ \A other \in UploadedFiles :
         ( NonWav(other) /\ other.sampleRate = fn.in.sampleRate
           /\ other.common = fn.in.common ) =>
           advancedAnalyzeAudio(other) = fn.out
\* an MP3 with a loud signal has got the silent feature set, while the
\* same content as a decodable WAV gets the energy level High
C29_Witness ==
  /\ NonWavDone
  /\ fn.in.content.samples = <<2, 2, 2>>
  /\ fn.out.energy_level = "Low"
  /\ advancedAnalyzeAudio([fn.in EXCEPT !.mimeType = <<"a", "u", "d", "i", "o", "/", "w", "a", "v">>,
                                        !.decodable = TRUE]).energy_level = "High"
\* the settings rows of a user
SettingsOf(u) == {i \in DOMAIN llm.rows : llm.rows[i].userId = u}

\* C30: whatever the interleaving of the upsertUserLLMSettings calls, a
\* user has at most one row in llmSettings.
C30_OneRowPerUser == \A u \in UserIds : Cardinality(SettingsOf(u)) <= 1
\* calls made one after the other leave at most one row per user: a user
\* has two rows only if two calls for that user both found no row
C30_TwoRowsOnlyByRace ==
  \A u \in UserIds :
    Cardinality(SettingsOf(u)) > 1 =>
      \E j, k \in DOMAIN llm.calls :
        /\ j # k
        /\ llm.calls[j].userId = u /\ llm.calls[k].userId = u
        /\ llm.calls[j].existing = <<>> /\ llm.calls[k].existing = <<>>
        /\ llm.calls[j].pc = "returned" /\ llm.calls[k].pc = "returned"
====
